---- MODULE Spec2Model ----
(***************************************************************************)
(* A model of the 7z archive writer and the multi-volume sink and source   *)
(* of sevenzip-ffi: the three archive creators (sevenzip_create_7z,        *)
(* sevenzip_create_7z_true_streaming,                                      *)
(* sevenzip_create_multivolume_7z_complete), the dispatcher                *)
(* sevenzip_create_7z_streaming, write_across_volumes, and the reader side *)
(* open_split_volumes / MultiVolumeInStream_Read / MultiVolumeInStream_Seek.*)
(*                                                                         *)
(* Bytes are naturals 0..255, files are sequences of bytes, 32-bit CRC     *)
(* values are tuples of four bytes (least significant first) and 64-bit    *)
(* values that are serialised are tuples of eight bytes, so that no value  *)
(* of the program is cut to the width of the checker's integers.           *)
(***************************************************************************)
EXTENDS Integers, Sequences, FiniteSets, TLC

VARIABLES
    inp,      \* the arguments of the create call: input paths, level, split_size
    pc,       \* position of the create call
    ctx,      \* MultiVolumeContext of the multi-volume writer
    files,    \* MV_FileEntry array of the multi-volume writer
    fidx,     \* index of the next entry of files to process
    wlog,     \* record of the bytes handed to write_across_volumes so far
    res,      \* what the create call left behind: return code, files on disk
    disk,     \* volume files on disk (reader side): path -> size in bytes
    base,     \* base path of the archive on disk
    written,  \* paths created by the multi-volume writer, in creation order
    stream,   \* MultiVolumeInStream
    rd,       \* the last Read or Seek on the stream and what it returned
    arg,      \* the arguments of a call of one of the other functions
    ans       \* what that call returned

createVars == <<inp, pc, ctx, files, fidx, wlog, res>>
volumeVars == <<disk, base, written, stream, rd>>
pureVars == <<arg, ans>>
vars == <<inp, pc, ctx, files, fidx, wlog, res, disk, base, written, stream, rd, arg, ans>>

(***************************************************************************)
(* Sequences of bytes                                                      *)
(***************************************************************************)
Min(a, b) == IF a < b THEN a ELSE b

Range(s) == {s[i] : i \in 1..Len(s)}

RECURSIVE Concat(_)
Concat(ss) == IF ss = <<>> THEN <<>> ELSE Head(ss) \o Concat(Tail(ss))

RECURSIVE SumSeq(_)
SumSeq(ns) == IF ns = <<>> THEN 0 ELSE Head(ns) + SumSeq(Tail(ns))

Take(s, n) == SubSeq(s, 1, Min(n, Len(s)))
Drop(s, n) == SubSeq(s, n + 1, Len(s))

\* fwrite at a file position: overwrites what is there and extends the file
FWriteAt(f, pos, bytes) ==
    Take(f, pos) \o bytes \o Drop(f, pos + Len(bytes))

\* memcpy of a uint32_t / uint64_t held as a natural below 2^31 (little-endian host)
LE32(n) == <<n % 256, (n \div 256) % 256, (n \div 65536) % 256, (n \div 16777216) % 256>>
LE64(n) == LE32(n) \o <<0, 0, 0, 0>>

\* the value of a little-endian field that fits the checker's integers, -1 when it does not
LEValue(b) ==
    IF \E i \in 5..Len(b) : b[i] # 0 THEN -1
    ELSE IF Len(b) >= 4 /\ b[4] >= 128 THEN -1
    ELSE SumSeq([i \in 1..Min(4, Len(b)) |->
                    b[i] * (CASE i = 1 -> 1 [] i = 2 -> 256 [] i = 3 -> 65536 [] OTHER -> 16777216)])

(***************************************************************************)
(* CRC-32 (IEEE 802.3), table driven as in the LZMA SDK's 7zCrc.c          *)
(***************************************************************************)
RECURSIVE BitXor(_, _, _)
BitXor(a, b, n) ==
    IF n = 0 THEN 0 ELSE ((a + b) % 2) + 2 * BitXor(a \div 2, b \div 2, n - 1)

XorNibble == [a \in 0..15 |-> [b \in 0..15 |-> BitXor(a, b, 4)]]

XorByte == [a \in 0..255 |-> [b \in 0..255 |->
               16 * XorNibble[a \div 16][b \div 16] + XorNibble[a % 16][b % 16]]]

Xor8(a, b) == XorByte[a][b]

Xor32(u, v) == <<Xor8(u[1], v[1]), Xor8(u[2], v[2]), Xor8(u[3], v[3]), Xor8(u[4], v[4])>>

Shr1(u) == <<(u[1] \div 2) + 128 * (u[2] % 2), (u[2] \div 2) + 128 * (u[3] % 2),
             (u[3] \div 2) + 128 * (u[4] % 2), u[4] \div 2>>

\* 0xEDB88320, least significant byte first
kCrcPoly == <<32, 131, 184, 237>>

RECURSIVE CrcTableEntry(_, _)
CrcTableEntry(u, k) ==
    IF k = 0 THEN u
    ELSE CrcTableEntry(IF u[1] % 2 = 1 THEN Xor32(Shr1(u), kCrcPoly) ELSE Shr1(u), k - 1)

g_CrcTable == [n \in 0..255 |-> CrcTableEntry(<<n, 0, 0, 0>>, 8)]

CRC_INIT_VAL == <<255, 255, 255, 255>>

CRC_UPDATE_BYTE(v, b) ==
    LET t == g_CrcTable[Xor8(v[1], b)]
    IN  <<Xor8(t[1], v[2]), Xor8(t[2], v[3]), Xor8(t[3], v[4]), t[4]>>

RECURSIVE CrcUpdateRange(_, _, _, _)
CrcUpdateRange(v, data, lo, hi) ==
    IF lo > hi THEN v
    ELSE IF lo = hi THEN CRC_UPDATE_BYTE(v, data[lo])
    ELSE LET mid == (lo + hi) \div 2
             left == CrcUpdateRange(v, data, lo, mid)
         IN  IF left[1] >= 0 THEN CrcUpdateRange(left, data, mid + 1, hi) ELSE left

CrcUpdate(v, data) == CrcUpdateRange(v, data, 1, Len(data))

CRC_GET_DIGEST(v) == Xor32(v, <<255, 255, 255, 255>>)

CrcCalc(data) == CRC_GET_DIGEST(CrcUpdate(CRC_INIT_VAL, data))

\* a uint32_t crc field set to 0 by memset / calloc
CrcZero == <<0, 0, 0, 0>>

(***************************************************************************)
(* 7z variable-length numbers.  A uint64_t is a tuple of eight bytes, least *)
(* significant first.                                                      *)
(***************************************************************************)
U64(n) == LE64(n)

\* value < ((uint64_t)1 << bits)
BelowPow2(v, bits) ==
    LET q == bits \div 8
        r == bits % 8
    IN  /\ \A i \in (q + 2)..8 : v[i] = 0
        /\ v[q + 1] < 2^r

\* a variant whose 3-byte form writes the two low bytes most significant first
WriteNumber_BigEndianLow(v) ==
    IF BelowPow2(v, 7) THEN <<v[1]>>
    ELSE IF BelowPow2(v, 14) THEN <<128 + v[2], v[1]>>
    ELSE IF BelowPow2(v, 21) THEN <<192 + (v[3] % 32), v[2], v[1]>>
    ELSE IF BelowPow2(v, 28) THEN <<224 + (v[4] % 16), v[1], v[2], v[3]>>
    ELSE IF BelowPow2(v, 35) THEN <<240 + (v[5] % 8), v[1], v[2], v[3], v[4]>>
    ELSE IF BelowPow2(v, 42) THEN <<248 + (v[6] % 4), v[1], v[2], v[3], v[4], v[5]>>
    ELSE IF BelowPow2(v, 49) THEN <<252 + (v[7] % 2), v[1], v[2], v[3], v[4], v[5], v[6]>>
    ELSE IF BelowPow2(v, 56) THEN <<254, v[1], v[2], v[3], v[4], v[5], v[6], v[7]>>
    ELSE <<255>> \o v

WriteNumber(v) ==
    IF BelowPow2(v, 7) THEN <<v[1]>>
    ELSE IF BelowPow2(v, 14) THEN <<128 + v[2], v[1]>>
    ELSE IF BelowPow2(v, 21) THEN <<192 + (v[3] % 32), v[1], v[2]>>
    ELSE IF BelowPow2(v, 28) THEN <<224 + (v[4] % 16), v[1], v[2], v[3]>>
    ELSE IF BelowPow2(v, 35) THEN <<240 + (v[5] % 8), v[1], v[2], v[3], v[4]>>
    ELSE IF BelowPow2(v, 42) THEN <<248 + (v[6] % 4), v[1], v[2], v[3], v[4], v[5]>>
    ELSE IF BelowPow2(v, 49) THEN <<252 + (v[7] % 2), v[1], v[2], v[3], v[4], v[5], v[6]>>
    ELSE IF BelowPow2(v, 56) THEN <<254, v[1], v[2], v[3], v[4], v[5], v[6], v[7]>>
    ELSE <<255>> \o v

write_number(v) ==
    IF BelowPow2(v, 7) THEN <<v[1]>>
    ELSE IF BelowPow2(v, 14) THEN <<128 + v[2], v[1]>>
    ELSE IF BelowPow2(v, 21) THEN <<192 + (v[3] % 32), v[1], v[2]>>
    ELSE IF BelowPow2(v, 28) THEN <<224 + (v[4] % 16), v[1], v[2], v[3]>>
    ELSE <<255>> \o v

\* the number of leading one bits of a first byte
LeadingOnes(b) ==
    IF b < 128 THEN 0 ELSE IF b < 192 THEN 1 ELSE IF b < 224 THEN 2 ELSE IF b < 240 THEN 3
    ELSE IF b < 248 THEN 4 ELSE IF b < 252 THEN 5 ELSE IF b < 254 THEN 6 ELSE IF b < 255 THEN 7
    ELSE 8

\* The 7z reading rule: k leading one bits in the first byte announce k more
\* bytes holding the low 8k bits, least significant first; the remaining low
\* bits of the first byte are the high part.  Gives the value and the number of
\* bytes taken from position pos of buf.
ReadNumber(buf, pos) ==
    LET first == buf[pos]
        k     == LeadingOnes(first)
        high  == IF k >= 7 THEN 0 ELSE first % (2^(7 - k))
        low   == [i \in 1..k |-> buf[pos + i]]
    IN  [value |-> [i \in 1..8 |-> IF i <= k THEN low[i] ELSE IF i = k + 1 THEN high ELSE 0],
         used  |-> k + 1]

(***************************************************************************)
(* Names: a path is a sequence of character codes (ASCII)                  *)
(***************************************************************************)
SlashChar == 47
DotChar == 46
ZeroChar == 48
NineChar == 57

\* the simplified UTF-8 to UTF-16LE conversion of the header writers: every
\* byte of the name becomes one 16-bit unit, followed by a 16-bit terminator
Utf16Name(name) ==
    Concat([i \in 1..Len(name) |-> <<name[i], 0>>]) \o <<0, 0>>

\* strrchr(path, '/'): the position of the last separator, 0 when there is none
LastSlash(path) ==
    IF \E i \in 1..Len(path) : path[i] = SlashChar
    THEN CHOOSE i \in 1..Len(path) :
            /\ path[i] = SlashChar
            /\ \A j \in (i + 1)..Len(path) : path[j] # SlashChar
    ELSE 0

BaseName(path) == Drop(path, LastSlash(path))

\* snprintf "%s/%s"
JoinPath(dir, name) == dir \o <<SlashChar>> \o name

(***************************************************************************)
(* Return codes (7z_ffi.h) and 7z property ids                             *)
(***************************************************************************)
SEVENZIP_OK == 0
SEVENZIP_ERROR_OPEN_FILE == 1
SEVENZIP_ERROR_MEMORY == 3
SEVENZIP_ERROR_COMPRESS == 5
SEVENZIP_ERROR_INVALID_PARAM == 6

SEVENZIP_LEVEL_STORE == 0
SEVENZIP_LEVEL_NORMAL == 5

k7zSignature == <<55, 122, 188, 175, 39, 28>>
k7zIdEnd == 0
k7zIdHeader == 1
k7zIdMainStreamsInfo == 4
k7zIdFilesInfo == 5
k7zIdPackInfo == 6
k7zIdUnpackInfo == 7
k7zIdSubStreamsInfo == 8
k7zIdSize == 9
k7zIdCRC == 10
k7zIdFolder == 11
k7zIdCodersUnpackSize == 12
k7zIdNumUnpackStream == 13
k7zIdEmptyStream == 14
k7zIdName == 17
k7zIdMTime == 20
k7zIdWinAttrib == 21

(***************************************************************************)
(* 64-bit arithmetic on byte tuples and the FILETIME conversion            *)
(***************************************************************************)
RECURSIVE CarryInto(_, _, _)
CarryInto(a, b, i) ==
    IF i = 1 THEN 0 ELSE (a[i - 1] + b[i - 1] + CarryInto(a, b, i - 1)) \div 256

\* a + b modulo 2^64
AddU64(a, b) == [i \in 1..8 |-> (a[i] + b[i] + CarryInto(a, b, i)) % 256]

\* 116444736000000000 = 0x019DB1DED53E8000
FiletimeEpoch == <<0, 128, 62, 213, 222, 177, 157, 1>>

TicksPerSecond == 10000000

\* (uint64_t)st_mtime * 10000000ULL + 116444736000000000ULL, for st_mtime of a few seconds
unix_to_filetime(t) == AddU64(U64(t * TicksPerSecond), FiletimeEpoch)

(***************************************************************************)
(* The file system the creators read.  A node has what stat() and fread()  *)
(* give: st_size is the size stat reports, data the bytes a read delivers  *)
(* (shorter than st_size when the file shrinks between the two).           *)
(***************************************************************************)
S_IWUSR == 128

\* st_mode values: 33188 = S_IFREG|0644, 33060 = S_IFREG|0444, 16877 = S_IFDIR|0755,
\* 4516 = S_IFIFO|0644

RegNode(size, data, mtime, mode) ==
    [kind |-> "reg", st_size |-> size, data |-> data, st_mtime |-> mtime,
     st_mode |-> mode, children |-> <<>>]

DirNode(names, mtime) ==
    [kind |-> "dir", st_size |-> 0, data |-> <<>>, st_mtime |-> mtime,
     st_mode |-> 16877, children |-> names]

OtherNode ==
    [kind |-> "other", st_size |-> 0, data |-> <<>>, st_mtime |-> 0,
     st_mode |-> 4516, children |-> <<>>]

MissingNode ==
    [kind |-> "missing", st_size |-> 0, data |-> <<>>, st_mtime |-> 0,
     st_mode |-> 0, children |-> <<>>]

PathA == <<112, 47, 97>>         \* "p/a"
PathB == <<98>>                  \* "b"
PathE == <<101>>                 \* "e"
PathT == <<116>>                 \* "t"
PathD == <<100>>                 \* "d"
PathDS == <<100, 47, 115>>       \* "d/s"
PathDSG == <<100, 47, 115, 47, 103>>  \* "d/s/g"
PathDH == <<100, 47, 104>>       \* "d/h"
PathL == <<108>>                 \* "l"
PathM == <<109>>                 \* "m", which does not exist
PathK == <<107>>                 \* "k", a file of more than 1 KiB

\* the size of the file "k"
SizeK == 1026

FS ==
    (PathA :> RegNode(1, <<65>>, 0, 33188)) @@
    (PathB :> RegNode(2, <<66, 67>>, 1, 33060)) @@
    (PathE :> RegNode(0, <<>>, 0, 33188)) @@
    (PathT :> RegNode(2, <<84>>, 0, 33188)) @@
    (PathD :> DirNode(<<<<115>>, <<104>>>>, 1)) @@
    (PathDS :> DirNode(<<<<103>>>>, 0)) @@
    (PathDSG :> RegNode(1, <<71>>, 0, 33188)) @@
    (PathDH :> RegNode(2, <<72, 73>>, 1, 33188)) @@
    (PathL :> OtherNode) @@
    (PathK :> RegNode(SizeK, [i \in 1..SizeK |-> (i * 7) % 251], 1, 33188))

STAT(path) == IF path \in DOMAIN FS THEN FS[path] ELSE MissingNode

S_ISDIR(st) == st.kind = "dir"
S_ISREG(st) == st.kind = "reg"

\* fread(buf, 1, n, f) on a freshly opened file: the bytes delivered
FRead(path, n) == Take(STAT(path).data, n)

(***************************************************************************)
(* The LZMA2 coder.  The encoder is taken for what the format requires of  *)
(* it: a stream of chunks closed by the end marker 0x00.  It is modelled   *)
(* with uncompressed chunks (control byte 1 for the first, 2 for the       *)
(* others, the chunk size minus one in two bytes, big-endian).             *)
(***************************************************************************)
Lzma2ChunkMax == 65536

RECURSIVE Lzma2Chunks(_, _)
Lzma2Chunks(data, first) ==
    IF data = <<>> THEN <<0>>
    ELSE LET n == Min(Len(data), Lzma2ChunkMax)
         IN  <<IF first THEN 1 ELSE 2, (n - 1) \div 256, (n - 1) % 256>>
                 \o Take(data, n) \o Lzma2Chunks(Drop(data, n), FALSE)

Lzma2Enc_Encode2(data) == Lzma2Chunks(data, TRUE)

\* LZMA2_DIC_SIZE_FROM_PROP
Lzma2DicSizeFromProp(p) == (2 + (p % 2)) * 2^((p \div 2) + 11)

\* the smallest property byte whose dictionary size covers dictSize
Lzma2Enc_WriteProperties(dictSize) ==
    CHOOSE p \in 0..37 :
        /\ dictSize <= Lzma2DicSizeFromProp(p)
        /\ \A q \in 0..(p - 1) : dictSize > Lzma2DicSizeFromProp(q)

\* the Copy coder
CopyCoder(data) == data

(***************************************************************************)
(* is_data_compressible (archive_create.c): fewer than 220 byte values     *)
(* occur more often than sample_size / 512 in the first 64 KiB             *)
(***************************************************************************)
CountByte(data, n, b) == Cardinality({i \in 1..n : data[i] = b})

is_data_compressible(data) ==
    IF Len(data) < 1024 THEN TRUE
    ELSE LET sample_size == IF Len(data) < 65536 THEN Len(data) ELSE 65536
             threshold == sample_size \div 512
             unique_bytes == Cardinality({b \in 0..255 : CountByte(data, sample_size, b) > threshold})
         IN  unique_bytes < 220

(***************************************************************************)
(* sevenzip_create_7z: scanning                                            *)
(***************************************************************************)
\* SevenZFile after memset(file, 0, ...)
SevenZFile(name, st, is_dir) ==
    [name |-> name, size |-> 0, mtime |-> unix_to_filetime(st.st_mtime),
     attrib |-> st.st_mode, crc |-> CrcZero, data |-> <<>>, has_data |-> FALSE,
     is_dir |-> is_dir]

\* while (*rel_path == '/') rel_path++
RECURSIVE SkipSlashes(_)
SkipSlashes(p) == IF p # <<>> /\ Head(p) = SlashChar THEN SkipSlashes(Tail(p)) ELSE p

\* fopen, malloc(st_size), fread: the entry with its data, or no entry on a short read
ReadWholeFile(entry, path, st) ==
    LET got == FRead(path, st.st_size)
    IN  [ok |-> Len(got) = st.st_size,
         file |-> [entry EXCEPT !.size = st.st_size, !.data = got, !.has_data = TRUE]]

RECURSIVE add_directory_recursive(_, _, _, _)
add_directory_recursive(list, dir_path, base_path, k) ==
    LET names == STAT(dir_path).children
    IN  IF k > Len(names) THEN [err |-> SEVENZIP_OK, files |-> list]
        ELSE
        LET full_path == JoinPath(dir_path, names[k])
            st == STAT(full_path)
            entry == SevenZFile(SkipSlashes(Drop(full_path, Len(base_path))), st, S_ISDIR(st))
        IN  IF st.kind = "missing" THEN [err |-> SEVENZIP_ERROR_OPEN_FILE, files |-> list]
            ELSE IF S_ISDIR(st) THEN
                LET sub == add_directory_recursive(Append(list, entry), full_path, base_path, 1)
                IN  IF sub.err # SEVENZIP_OK THEN sub
                    ELSE add_directory_recursive(sub.files, dir_path, base_path, k + 1)
            ELSE IF S_ISREG(st) THEN
                LET r == ReadWholeFile(entry, full_path, st)
                IN  IF ~r.ok THEN [err |-> SEVENZIP_ERROR_OPEN_FILE, files |-> Append(list, entry)]
                    ELSE add_directory_recursive(Append(list, r.file), dir_path, base_path, k + 1)
            ELSE add_directory_recursive(Append(list, entry), dir_path, base_path, k + 1)

\* the loop over input_paths of sevenzip_create_7z
RECURSIVE create_7z_add_inputs(_, _, _)
create_7z_add_inputs(list, paths, i) ==
    IF i > Len(paths) THEN [err |-> SEVENZIP_OK, files |-> list]
    ELSE
    LET path == paths[i]
        st == STAT(path)
        entry == SevenZFile(BaseName(path), st, FALSE)
    IN  IF st.kind = "missing" THEN [err |-> SEVENZIP_ERROR_OPEN_FILE, files |-> list]
        ELSE IF S_ISDIR(st) THEN
            LET sub == add_directory_recursive(list, path, path, 1)
            IN  IF sub.err # SEVENZIP_OK THEN sub
                ELSE create_7z_add_inputs(sub.files, paths, i + 1)
        ELSE IF S_ISREG(st) THEN
            LET r == ReadWholeFile(entry, path, st)
            IN  IF ~r.ok THEN [err |-> SEVENZIP_ERROR_OPEN_FILE, files |-> Append(list, entry)]
                ELSE create_7z_add_inputs(Append(list, r.file), paths, i + 1)
        ELSE create_7z_add_inputs(Append(list, entry), paths, i + 1)

\* the dictionary size sevenzip_create_7z sets for a level when options give none
create_7z_dictSize(level) ==
    CASE level = 0 -> 2^16
      [] level = 1 -> 2^18
      [] level = 3 -> 2^20
      [] level = 5 -> 2^23
      [] level = 7 -> 2^25
      [] level = 9 -> 2^26
      [] OTHER -> 2^23

(***************************************************************************)
(* sevenzip_create_7z: compress_all_files and write_7z_archive             *)
(***************************************************************************)
NonDirs(list) == SelectSeq(list, LAMBDA f : ~f.is_dir)

\* the entries whose bytes compress_all_files copies into the combined buffer
WithData(list) == SelectSeq(list, LAMBDA f : ~f.is_dir /\ f.has_data)

SizeSum(list) == SumSeq([i \in 1..Len(list) |-> list[i].size])

OneMiB == 1048576

\* a variant whose CRC is never reset between files: the CRC stored for a file
\* covers the combined buffer from its start to the end of that file
compress_all_files_RunningCrc(builder) ==
    LET total_input_size == SizeSum(WithData(builder.files))
        combined == Concat([i \in 1..Len(WithData(builder.files)) |-> WithData(builder.files)[i].data])
        upTo(i) == Concat([j \in 1..i |-> IF ~builder.files[j].is_dir /\ builder.files[j].has_data
                                          THEN builder.files[j].data ELSE <<>>])
        withCrc == [i \in 1..Len(builder.files) |->
                      IF ~builder.files[i].is_dir /\ builder.files[i].has_data
                      THEN [builder.files[i] EXCEPT !.crc = CrcCalc(upTo(i))]
                      ELSE builder.files[i]]
    IN  IF total_input_size = 0
        THEN [builder |-> builder, output |-> <<>>, combined |-> <<>>]
        ELSE IF builder.use_copy_codec
                \/ (total_input_size > OneMiB /\ ~is_data_compressible(combined))
        THEN [builder |-> [builder EXCEPT !.files = withCrc, !.use_copy_codec = TRUE,
                                          !.lzma2_prop_byte = 0],
              output |-> CopyCoder(combined), combined |-> combined]
        ELSE [builder |-> [builder EXCEPT !.files = withCrc, !.use_copy_codec = FALSE,
                              !.lzma2_prop_byte = Lzma2Enc_WriteProperties(builder.dictSize)],
              output |-> Lzma2Enc_Encode2(combined), combined |-> combined]

\* builder: [files, use_copy_codec, lzma2_prop_byte, dictSize]
compress_all_files(builder) ==
    LET total_input_size == SizeSum(WithData(builder.files))
        combined == Concat([i \in 1..Len(WithData(builder.files)) |-> WithData(builder.files)[i].data])
        withCrc == [i \in 1..Len(builder.files) |->
                      IF ~builder.files[i].is_dir /\ builder.files[i].has_data
                      THEN [builder.files[i] EXCEPT !.crc = CrcCalc(builder.files[i].data)]
                      ELSE builder.files[i]]
    IN  IF total_input_size = 0
        THEN [builder |-> builder, output |-> <<>>, combined |-> <<>>]
        ELSE IF builder.use_copy_codec
                \/ (total_input_size > OneMiB /\ ~is_data_compressible(combined))
        THEN [builder |-> [builder EXCEPT !.files = withCrc, !.use_copy_codec = TRUE,
                                          !.lzma2_prop_byte = 0],
              output |-> CopyCoder(combined), combined |-> combined]
        ELSE [builder |-> [builder EXCEPT !.files = withCrc, !.use_copy_codec = FALSE,
                              !.lzma2_prop_byte = Lzma2Enc_WriteProperties(builder.dictSize)],
              output |-> Lzma2Enc_Encode2(combined), combined |-> combined]

\* the coder record of the folder: Copy, or LZMA2 with its property byte
c7_Coder(builder) ==
    IF builder.use_copy_codec THEN <<1, 0>>
    ELSE <<33, 33>> \o WriteNumber(U64(1)) \o <<builder.lzma2_prop_byte>>

c7_PackInfo(pack_size) ==
    <<k7zIdPackInfo>> \o WriteNumber(U64(0)) \o WriteNumber(U64(1))
        \o <<k7zIdSize>> \o WriteNumber(U64(pack_size)) \o <<k7zIdEnd>>

c7_UnpackInfo(builder) ==
    <<k7zIdUnpackInfo, k7zIdFolder>> \o WriteNumber(U64(1)) \o WriteNumber(U64(0))
        \o WriteNumber(U64(1)) \o c7_Coder(builder)
        \o <<k7zIdCodersUnpackSize>> \o WriteNumber(U64(SizeSum(NonDirs(builder.files))))
        \o <<k7zIdEnd>>

\* the sizes written: those of all non-directory entries but the last
c7_SizeList(list) ==
    [i \in 1..(Len(NonDirs(list)) - 1) |-> WriteNumber(U64(NonDirs(list)[i].size))]

c7_CrcList(list) == [i \in 1..Len(NonDirs(list)) |-> NonDirs(list)[i].crc]

c7_SubStreamsInfo(list) ==
    <<k7zIdSubStreamsInfo, k7zIdNumUnpackStream>> \o WriteNumber(U64(Len(NonDirs(list))))
        \o (IF Len(NonDirs(list)) > 1 THEN <<k7zIdSize>> \o Concat(c7_SizeList(list)) ELSE <<>>)
        \o <<k7zIdCRC, 1>> \o Concat(c7_CrcList(list)) \o <<k7zIdEnd>>

\* p[i / 8] |= (1 << (7 - (i % 8))) for every directory, i counted from 0
EmptyStreamMask(list) ==
    [j \in 1..((Len(list) + 7) \div 8) |->
        SumSeq([b \in 1..8 |->
            IF 8 * (j - 1) + b <= Len(list) /\ list[8 * (j - 1) + b].is_dir
            THEN 2^(8 - b) ELSE 0])]

c7_EmptyStream(list) ==
    IF \E i \in 1..Len(list) : list[i].is_dir
    THEN <<k7zIdEmptyStream>> \o WriteNumber(U64((Len(list) + 7) \div 8)) \o EmptyStreamMask(list)
    ELSE <<>>

NameList(list) == [i \in 1..Len(list) |-> Utf16Name(list[i].name)]
MTimeList(list) == [i \in 1..Len(list) |-> list[i].mtime]
AttribList(list) == [i \in 1..Len(list) |-> LE32(list[i].attrib)]

c7_Names(list) ==
    <<k7zIdName>> \o WriteNumber(U64(Len(Concat(NameList(list))) + 1)) \o <<0>>
        \o Concat(NameList(list))

c7_MTimes(list) ==
    <<k7zIdMTime>> \o WriteNumber(U64(2 + 8 * Len(list))) \o <<1, 0>> \o Concat(MTimeList(list))

c7_Attribs(list) ==
    <<k7zIdWinAttrib>> \o WriteNumber(U64(2 + 4 * Len(list))) \o <<1, 0>> \o Concat(AttribList(list))

c7_FilesInfo(list) ==
    <<k7zIdFilesInfo>> \o WriteNumber(U64(Len(list))) \o c7_EmptyStream(list)
        \o c7_Names(list) \o c7_MTimes(list) \o c7_Attribs(list) \o <<k7zIdEnd>>

c7_Header(builder, pack_size) ==
    <<k7zIdHeader, k7zIdMainStreamsInfo>> \o c7_PackInfo(pack_size) \o c7_UnpackInfo(builder)
        \o c7_SubStreamsInfo(builder.files) \o <<k7zIdEnd>> \o c7_FilesInfo(builder.files)
        \o <<k7zIdEnd>>

\* signature, version 0.4 and the 24 zero bytes written as placeholders
SignatureHeaderPlaceholder == k7zSignature \o <<0, 4>> \o [i \in 1..24 |-> 0]

k7zStartHeaderSize == 32
StartHeaderCrcPos == 8
NextHeaderOffsetPos == 12

\* the 20 bytes NextHeaderOffset, NextHeaderSize, NextHeaderCRC
StartHeaderBuf(offset, size, crc) == LE64(offset) \o LE64(size) \o crc

\* a variant that takes the start header CRC over the 20 placeholder bytes, as
\* if the CRC were computed before the three fields are filled in
c7_UpdateStartHeader_StaleCrc(f, header_offset, header_size, header_crc) ==
    LET f1 == FWriteAt(f, NextHeaderOffsetPos, StartHeaderBuf(header_offset, header_size, header_crc))
    IN  FWriteAt(f1, StartHeaderCrcPos, CrcCalc(SubSeq(f, NextHeaderOffsetPos + 1, k7zStartHeaderSize)))

\* fseek(next_header_offset_pos), three fwrite; fseek(start_crc_pos), fwrite
c7_UpdateStartHeader(f, header_offset, header_size, header_crc) ==
    LET f1 == FWriteAt(f, NextHeaderOffsetPos, StartHeaderBuf(header_offset, header_size, header_crc))
    IN  FWriteAt(f1, StartHeaderCrcPos, CrcCalc(StartHeaderBuf(header_offset, header_size, header_crc)))

\* what a create call leaves behind
Entry(f) ==
    [name |-> f.name, size |-> f.size, mtime |-> f.mtime, attrib |-> f.attrib,
     crc |-> f.crc, data |-> f.data, is_dir |-> f.is_dir]

Entries(list) == [i \in 1..Len(list) |-> Entry(list[i])]

NoSections == [names |-> <<>>, mtimes |-> <<>>, attribs |-> <<>>, sizes |-> <<>>, crcs |-> <<>>]

NoResult ==
    [api |-> "none", ret |-> -1, volumes |-> <<>>, header |-> <<>>, pack |-> <<>>,
     runs |-> <<>>, entries |-> <<>>, sections |-> NoSections]

Failure(api, code) == [NoResult EXCEPT !.api = api, !.ret = code]

\* runs: one record per coder run, with the coder, its input and its output
write_7z_archive(builder0) ==
    LET c == compress_all_files(builder0)
        builder == c.builder
        pack_pos == Len(SignatureHeaderPlaceholder)
        f1 == SignatureHeaderPlaceholder \o c.output
        header == c7_Header(builder, Len(c.output))
        header_offset == Len(f1) - pack_pos
        f2 == f1 \o header
        f3 == c7_UpdateStartHeader(f2, header_offset, Len(header), CrcCalc(header))
    IN  [api |-> "create_7z", ret |-> SEVENZIP_OK, volumes |-> <<f3>>, header |-> header,
         pack |-> c.output,
         runs |-> IF c.combined = <<>> THEN <<>>
                  ELSE <<[copy |-> builder.use_copy_codec, input |-> c.combined,
                          output |-> c.output]>>,
         entries |-> Entries(builder.files),
         sections |-> [names |-> NameList(builder.files), mtimes |-> MTimeList(builder.files),
                       attribs |-> AttribList(builder.files),
                       sizes |-> c7_SizeList(builder.files), crcs |-> c7_CrcList(builder.files)]]

\* garbage: the value the never-initialised builder.lzma2_prop_byte happens to hold
\* dict_size: opts->dict_size, 0 when the caller leaves the choice to the level
sevenzip_create_7z(paths, level, dict_size, garbage) ==
    LET scan == create_7z_add_inputs(<<>>, paths, 1)
        builder == [files |-> scan.files, use_copy_codec |-> (level = SEVENZIP_LEVEL_STORE),
                    lzma2_prop_byte |-> garbage,
                    dictSize |-> IF dict_size > 0 THEN dict_size ELSE create_7z_dictSize(level)]
    IN  IF scan.err # SEVENZIP_OK THEN Failure("create_7z", scan.err)
        ELSE write_7z_archive(builder)

(***************************************************************************)
(* sevenzip_create_7z_true_streaming                                       *)
(***************************************************************************)
\* builder_add_file; data is what compress_files_streaming later reads of the file
FileMetadata(full_path, relative_name, size, st, is_dir) ==
    [name |-> relative_name, full_path |-> full_path, size |-> size,
     mtime |-> unix_to_filetime(st.st_mtime), attrib |-> st.st_mode, crc |-> CrcZero,
     data |-> <<>>, is_dir |-> is_dir]

RECURSIVE scan_file(_, _, _)
RECURSIVE scan_directory_recursive(_, _, _, _)

scan_file(list, full_path, relative_name) ==
    LET st == STAT(full_path)
    IN  IF st.kind = "missing" THEN [err |-> SEVENZIP_ERROR_OPEN_FILE, files |-> list]
        ELSE IF S_ISDIR(st) THEN
            scan_directory_recursive(
                Append(list, FileMetadata(full_path, relative_name, 0, st, TRUE)),
                full_path, relative_name, 1)
        ELSE IF S_ISREG(st) THEN
            [err |-> SEVENZIP_OK,
             files |-> Append(list, FileMetadata(full_path, relative_name, st.st_size, st, FALSE))]
        ELSE [err |-> SEVENZIP_OK, files |-> list]

scan_directory_recursive(list, dir_path, base_name, k) ==
    LET names == STAT(dir_path).children
    IN  IF k > Len(names) THEN [err |-> SEVENZIP_OK, files |-> list]
        ELSE LET r == scan_file(list, JoinPath(dir_path, names[k]), JoinPath(base_name, names[k]))
             IN  IF r.err # SEVENZIP_OK THEN r
                 ELSE scan_directory_recursive(r.files, dir_path, base_name, k + 1)

\* the loop over input_paths of sevenzip_create_7z_true_streaming
RECURSIVE ts_scan_inputs(_, _, _)
ts_scan_inputs(list, paths, i) ==
    IF i > Len(paths) THEN [err |-> SEVENZIP_OK, files |-> list]
    ELSE LET r == scan_file(list, paths[i], BaseName(paths[i]))
         IN  IF r.err # SEVENZIP_OK THEN r ELSE ts_scan_inputs(r.files, paths, i + 1)

\* the bytes the read loop of compress_files_streaming gets of one file: it stops
\* at file->size bytes or when fread delivers nothing
ts_BytesRead(file) == FRead(file.full_path, file.size)

\* compress_files_streaming: the raw bytes of every non-empty file go to the temp
\* file; the CRC is that of the bytes read
compress_files_streaming(list) ==
    [files |-> [i \in 1..Len(list) |->
                    IF list[i].is_dir \/ list[i].size = 0 THEN list[i]
                    ELSE [list[i] EXCEPT !.data = ts_BytesRead(list[i]),
                                         !.crc = CRC_GET_DIGEST(CrcUpdate(CRC_INIT_VAL, ts_BytesRead(list[i])))]],
     temp |-> Concat([i \in 1..Len(list) |->
                    IF list[i].is_dir \/ list[i].size = 0 THEN <<>> ELSE ts_BytesRead(list[i])])]

\* the entries that have a stream of their own in the header
ts_Streams(list) == SelectSeq(list, LAMBDA f : ~f.is_dir /\ f.size > 0)

\* position i of list is written unless it is the last entry and that one is no directory
ts_SizeList(list) ==
    LET idx == SelectSeq([i \in 1..Len(list) |-> i],
                   LAMBDA i : /\ ~list[i].is_dir /\ list[i].size > 0
                              /\ (i < Len(list) \/ list[Len(list)].is_dir))
    IN  [j \in 1..Len(idx) |-> write_number(U64(list[idx[j]].size))]

ts_CrcList(list) == [i \in 1..Len(ts_Streams(list)) |-> ts_Streams(list)[i].crc]

ts_SubStreamsInfo(list) ==
    IF Len(ts_Streams(list)) > 1
    THEN <<k7zIdSubStreamsInfo, k7zIdNumUnpackStream>> \o write_number(U64(Len(ts_Streams(list))))
            \o <<k7zIdSize>> \o Concat(ts_SizeList(list))
            \o <<k7zIdCRC, 1>> \o Concat(ts_CrcList(list)) \o <<k7zIdEnd>>
    ELSE <<>>

ts_EmptyStream(list) ==
    IF \E i \in 1..Len(list) : list[i].is_dir
    THEN <<k7zIdEmptyStream>> \o write_number(U64((Len(list) + 7) \div 8)) \o EmptyStreamMask(list)
    ELSE <<>>

\* total_uncompressed: the sizes stat reported for the non-directory entries
ts_Header(list, data_size) ==
    <<k7zIdMainStreamsInfo, k7zIdPackInfo>> \o write_number(U64(0)) \o write_number(U64(1))
        \o <<k7zIdSize>> \o write_number(U64(data_size)) \o <<k7zIdEnd>>
        \o <<k7zIdUnpackInfo, k7zIdFolder>> \o write_number(U64(1)) \o <<1, 0>>
        \o <<k7zIdCodersUnpackSize>> \o write_number(U64(SizeSum(NonDirs(list)))) \o <<k7zIdEnd>>
        \o ts_SubStreamsInfo(list) \o <<k7zIdEnd>>
        \o <<k7zIdFilesInfo>> \o write_number(U64(Len(list)))
        \o <<k7zIdName>> \o write_number(U64(1 + Len(Concat(NameList(list))))) \o <<0>>
        \o Concat(NameList(list))
        \o ts_EmptyStream(list)
        \o <<k7zIdMTime>> \o write_number(U64(2 + 8 * Len(list))) \o <<1, 0>>
        \o Concat(MTimeList(list))
        \o <<k7zIdEnd, k7zIdEnd>>

HeaderSizePos == 20

ts_write_7z_archive(list, temp) ==
    LET data_size == Len(temp)
        f0 == k7zSignature \o <<0, 4>> \o <<0, 0, 0, 0>> \o LE64(data_size)
                 \o LE64(0) \o <<0, 0, 0, 0>>
        f1 == f0 \o temp
        header == ts_Header(list, data_size)
        f2 == f1 \o header
        f3 == FWriteAt(f2, HeaderSizePos, LE64(Len(header)) \o CrcCalc(header))
        f4 == FWriteAt(f3, StartHeaderCrcPos,
                       CrcCalc(StartHeaderBuf(data_size, Len(header), CrcCalc(header))))
    IN  [api |-> "true_streaming", ret |-> SEVENZIP_OK, volumes |-> <<f4>>, header |-> header,
         pack |-> temp,
         runs |-> IF temp = <<>> THEN <<>>
                  ELSE <<[copy |-> TRUE, input |-> temp, output |-> temp]>>,
         entries |-> Entries(list),
         sections |-> [names |-> NameList(list), mtimes |-> MTimeList(list), attribs |-> <<>>,
                       sizes |-> ts_SizeList(list), crcs |-> ts_CrcList(list)]]

sevenzip_create_7z_true_streaming(paths) ==
    LET scan == ts_scan_inputs(<<>>, paths, 1)
        c == compress_files_streaming(scan.files)
    IN  IF scan.err # SEVENZIP_OK THEN Failure("true_streaming", scan.err)
        ELSE ts_write_7z_archive(c.files, c.temp)

(***************************************************************************)
(* The multi-volume sink (archive_create_multivolume.c).  ctx.volumes holds *)
(* the contents of the volume files in the order they were opened.         *)
(***************************************************************************)
open_new_volume(c) ==
    [c EXCEPT !.volumes = Append(@, <<>>), !.current_volume_size = 0]

\* a variant that never advances src: every round writes from the start of data
RECURSIVE write_across_volumes_NoAdvance(_, _)
write_across_volumes_NoAdvance(c, data) ==
    IF Len(data) = 0 THEN c
    ELSE
    LET c1 == IF Len(c.volumes) = 0 \/ c.current_volume_size >= c.max_volume_size
              THEN open_new_volume(c) ELSE c
        space_in_volume == c1.max_volume_size - c1.current_volume_size
        to_write == Min(Len(data), space_in_volume)
        c2 == [c1 EXCEPT !.volumes[Len(c1.volumes)] = @ \o Take(data, to_write),
                         !.current_volume_size = @ + to_write,
                         !.bytes_written = @ + to_write]
    IN  write_across_volumes_NoAdvance(c2, Take(data, Len(data) - to_write))

RECURSIVE write_across_volumes(_, _)
write_across_volumes(c, data) ==
    IF Len(data) = 0 THEN c
    ELSE
    LET c1 == IF Len(c.volumes) = 0 \/ c.current_volume_size >= c.max_volume_size
              THEN open_new_volume(c) ELSE c
        space_in_volume == c1.max_volume_size - c1.current_volume_size
        to_write == Min(Len(data), space_in_volume)
        c2 == [c1 EXCEPT !.volumes[Len(c1.volumes)] = @ \o Take(data, to_write),
                         !.current_volume_size = @ + to_write,
                         !.bytes_written = @ + to_write]
    IN  write_across_volumes(c2, Drop(data, to_write))

STREAM_BUFFER_SIZE == 33554432

\* VolumeOutStream: s = [ctx, buf, packed_size]
VolumeOutStream_Flush(s) ==
    IF Len(s.buf) > 0
    THEN [ctx |-> write_across_volumes(s.ctx, s.buf), buf |-> <<>>,
          packed_size |-> s.packed_size + Len(s.buf)]
    ELSE s

RECURSIVE VolumeOutStream_Buffer(_, _)
VolumeOutStream_Buffer(s, data) ==
    IF Len(data) = 0 THEN s
    ELSE LET copy == Min(Len(data), STREAM_BUFFER_SIZE - Len(s.buf))
             s1 == [s EXCEPT !.buf = @ \o Take(data, copy)]
             s2 == IF Len(s1.buf) >= STREAM_BUFFER_SIZE THEN VolumeOutStream_Flush(s1) ELSE s1
         IN  VolumeOutStream_Buffer(s2, Drop(data, copy))

VolumeOutStream_Write(s, data) ==
    IF Len(data) >= STREAM_BUFFER_SIZE
    THEN LET s1 == VolumeOutStream_Flush(s)
         IN  [ctx |-> write_across_volumes(s1.ctx, data), buf |-> s1.buf,
              packed_size |-> s1.packed_size + Len(data)]
    ELSE VolumeOutStream_Buffer(s, data)

\* is_data_compressible of archive_create_multivolume.c: the threshold is 200
mv_is_data_compressible(data) ==
    IF Len(data) < 1024 THEN TRUE
    ELSE LET sample_size == IF Len(data) < 65536 THEN Len(data) ELSE 65536
             threshold == sample_size \div 512
             unique_bytes == Cardinality({b \in 0..255 : CountByte(data, sample_size, b) > threshold})
         IN  unique_bytes < 200

\* store_file_uncompressed with mapped_data = NULL: the file is read until
\* file_size bytes have come or fread delivers nothing; what was read goes to the
\* volumes, and the packed size reported is file_size.
\* Gives the context, the bytes handed to write_across_volumes, crc and packed size.
store_file_uncompressed(c, file_path, file_size) ==
    LET got == FRead(file_path, file_size)
    IN  [ctx |-> write_across_volumes(c, got), passed |-> got, data |-> got,
         crc |-> CRC_GET_DIGEST(CrcUpdate(CRC_INIT_VAL, got)),
         packed_size |-> file_size, prop |-> 0]

\* store_file_uncompressed with the mapped file
store_file_mapped(c, mapped, file_size) ==
    [ctx |-> write_across_volumes(c, mapped), passed |-> mapped, data |-> mapped,
     crc |-> CRC_GET_DIGEST(CrcUpdate(CRC_INIT_VAL, mapped)),
     packed_size |-> file_size, prop |-> 0]

\* compress_file_streaming: the file is stat'ed again, so file_size is the size
\* the file has now; one LZMA2 encoder is created for this file alone and its
\* output goes through a VolumeOutStream that is flushed at the end.
compress_file_streaming(c, file_path, dictSize) ==
    LET mapped == STAT(file_path).data
        file_size == Len(mapped)
        out == VolumeOutStream_Flush(
                   VolumeOutStream_Write([ctx |-> c, buf |-> <<>>, packed_size |-> 0],
                                         Lzma2Enc_Encode2(mapped)))
    IN  IF file_size > OneMiB /\ ~mv_is_data_compressible(mapped)
        THEN store_file_mapped(c, mapped, file_size)
        ELSE [ctx |-> out.ctx, passed |-> Lzma2Enc_Encode2(mapped), data |-> mapped,
              crc |-> CRC_GET_DIGEST(CrcUpdate(CRC_INIT_VAL, mapped)),
              packed_size |-> out.packed_size, prop |-> Lzma2Enc_WriteProperties(dictSize)]

(***************************************************************************)
(* sevenzip_create_multivolume_7z_complete: gathering the entries          *)
(***************************************************************************)
\* ADD_FILE_ENTRY
MV_FileEntry(full_path, relative_name) ==
    LET st == STAT(full_path)
    IN  [name |-> relative_name, full_path |-> full_path, size |-> st.st_size,
         mtime |-> unix_to_filetime(st.st_mtime),
         attrib |-> 32 + (IF (st.st_mode \div S_IWUSR) % 2 = 0 THEN 1 ELSE 0),
         crc |-> CrcZero, lzma2_prop |-> 0, data |-> <<>>, is_dir |-> FALSE]

\* the readdir loop over one directory: regular files are added, directories pushed
RECURSIVE mv_scan_dir(_, _, _, _, _, _)
mv_scan_dir(list, stack, current_dir, k, base_dir_name, base_path_len) ==
    LET names == STAT(current_dir).children
    IN  IF k > Len(names) THEN [files |-> list, stack |-> stack]
        ELSE
        LET full_path == JoinPath(current_dir, names[k])
            st == STAT(full_path)
        IN  IF S_ISDIR(st)
            THEN mv_scan_dir(list, Append(stack, full_path), current_dir, k + 1,
                             base_dir_name, base_path_len)
            ELSE IF S_ISREG(st)
            THEN mv_scan_dir(Append(list, MV_FileEntry(full_path,
                                 base_dir_name \o Drop(full_path, base_path_len))),
                             stack, current_dir, k + 1, base_dir_name, base_path_len)
            ELSE mv_scan_dir(list, stack, current_dir, k + 1, base_dir_name, base_path_len)

\* while (stack_size > 0): the directory pushed last is taken first
RECURSIVE mv_walk(_, _, _, _)
mv_walk(list, stack, base_dir_name, base_path_len) ==
    IF Len(stack) = 0 THEN list
    ELSE LET r == mv_scan_dir(list, SubSeq(stack, 1, Len(stack) - 1), stack[Len(stack)], 1,
                              base_dir_name, base_path_len)
         IN  mv_walk(r.files, r.stack, base_dir_name, base_path_len)

\* the loop over input_paths: paths that cannot be stat'ed are passed over
RECURSIVE mv_gather(_, _, _)
mv_gather(list, paths, i) ==
    IF i > Len(paths) THEN list
    ELSE LET st == STAT(paths[i])
         IN  IF S_ISREG(st)
             THEN mv_gather(Append(list, MV_FileEntry(paths[i], BaseName(paths[i]))), paths, i + 1)
             ELSE IF S_ISDIR(st)
             THEN mv_gather(mv_walk(list, <<paths[i]>>, BaseName(paths[i]), Len(paths[i])),
                            paths, i + 1)
             ELSE mv_gather(list, paths, i + 1)

(***************************************************************************)
(* build_7z_header (archive_create_multivolume.c)                          *)
(***************************************************************************)
\* the property byte of the first non-directory entry decides the coder record
mv_PropByte(list) == IF Len(NonDirs(list)) > 0 THEN NonDirs(list)[1].lzma2_prop ELSE 1

mv_Coder(list) ==
    IF mv_PropByte(list) = 0 THEN <<1, 0>> ELSE <<33, 33, 1, mv_PropByte(list)>>

mv_SizeList(list) ==
    [i \in 1..(Len(NonDirs(list)) - 1) |-> WriteNumber(U64(NonDirs(list)[i].size))]

mv_CrcList(list) == [i \in 1..Len(NonDirs(list)) |-> NonDirs(list)[i].crc]

build_7z_header(list, total_packed_size) ==
    <<k7zIdHeader, k7zIdMainStreamsInfo, k7zIdPackInfo>>
        \o WriteNumber(U64(0)) \o WriteNumber(U64(1))
        \o <<k7zIdSize>> \o WriteNumber(U64(total_packed_size)) \o <<k7zIdEnd>>
        \o <<k7zIdUnpackInfo, k7zIdFolder>> \o WriteNumber(U64(1)) \o WriteNumber(U64(0))
        \o WriteNumber(U64(1)) \o mv_Coder(list)
        \o <<k7zIdCodersUnpackSize>> \o WriteNumber(U64(SizeSum(NonDirs(list)))) \o <<k7zIdEnd>>
        \o <<k7zIdSubStreamsInfo, k7zIdNumUnpackStream>> \o WriteNumber(U64(Len(NonDirs(list))))
        \o (IF Len(NonDirs(list)) > 1 THEN <<k7zIdSize>> \o Concat(mv_SizeList(list)) ELSE <<>>)
        \o <<k7zIdCRC, 1>> \o Concat(mv_CrcList(list)) \o <<k7zIdEnd, k7zIdEnd>>
        \o <<k7zIdFilesInfo>> \o WriteNumber(U64(Len(list)))
        \o <<k7zIdName>> \o WriteNumber(U64(Len(Concat(NameList(list))) + 1)) \o <<0>>
        \o Concat(NameList(list))
        \o <<k7zIdMTime>> \o WriteNumber(U64(Len(list) * 8 + 2)) \o <<1, 0>>
        \o Concat(MTimeList(list))
        \o <<k7zIdWinAttrib>> \o WriteNumber(U64(Len(list) * 4 + 2)) \o <<1, 0>>
        \o Concat(AttribList(list))
        \o <<k7zIdEnd, k7zIdEnd>>

\* fseek(first_vol, start_header_pos); fwrite of the CRC and of the 20 bytes
mv_UpdateStartHeader(vol, next_header_offset, next_header_size, header_crc) ==
    FWriteAt(vol, StartHeaderCrcPos,
             CrcCalc(StartHeaderBuf(next_header_offset, next_header_size, header_crc))
                 \o StartHeaderBuf(next_header_offset, next_header_size, header_crc))

\* the dictionary size Lzma2EncProps_Normalize settles on when options give none
Lzma2DefaultDictSize(level) ==
    IF level <= 4 THEN 2^(level * 2 + 16) ELSE IF level <= 8 THEN 2^(level + 20) ELSE 2^28

mv_dictSize(level, dict_size) ==
    IF dict_size > 0 THEN dict_size ELSE Lzma2DefaultDictSize(level)

(***************************************************************************)
(* sevenzip_create_7z_streaming: gather_files                              *)
(***************************************************************************)
RECURSIVE gather_files(_, _)
RECURSIVE gather_directory_files(_, _, _)

\* list: the sizes of the regular files found so far
gather_files(list, path) ==
    LET st == STAT(path)
    IN  IF st.kind = "missing" THEN [ok |-> FALSE, sizes |-> list]
        ELSE IF S_ISREG(st) THEN [ok |-> TRUE, sizes |-> Append(list, st.st_size)]
        ELSE IF S_ISDIR(st) THEN gather_directory_files(list, path, 1)
        ELSE [ok |-> TRUE, sizes |-> list]

gather_directory_files(list, dir_path, k) ==
    LET names == STAT(dir_path).children
    IN  IF k > Len(names) THEN [ok |-> TRUE, sizes |-> list]
        ELSE LET r == gather_files(list, JoinPath(dir_path, names[k]))
             IN  IF ~r.ok THEN r ELSE gather_directory_files(r.sizes, dir_path, k + 1)

RECURSIVE gather_inputs(_, _, _)
gather_inputs(list, paths, i) ==
    IF i > Len(paths) THEN [ok |-> TRUE, sizes |-> list]
    ELSE LET r == gather_files(list, paths[i])
         IN  IF ~r.ok THEN r ELSE gather_inputs(r.sizes, paths, i + 1)

(***************************************************************************)
(* Inputs of the create calls                                              *)
(***************************************************************************)
MaxInputs == 2

InputPaths == {PathA, PathB, PathE, PathT, PathD, PathL, PathM}

RECURSIVE ListsUpTo(_, _)
ListsUpTo(S, n) ==
    IF n = 0 THEN {<<>>}
    ELSE ListsUpTo(S, n - 1) \cup
         {Append(l, p) : l \in {m \in ListsUpTo(S, n - 1) : Len(m) = n - 1},
                         p \in S}

\* lists of distinct input paths
InputLists == {l \in ListsUpTo(InputPaths, MaxInputs) :
                  \A i, j \in 1..Len(l) : i # j => l[i] # l[j]}

Levels == {SEVENZIP_LEVEL_STORE, SEVENZIP_LEVEL_NORMAL}

\* split_size 0 asks for a single archive file
SplitSizes == {0, 4, 32, 40}

\* values the never-initialised byte may hold
GarbageBytes == {0, 24, 255}

\* options->dict_size as sevenzip_stream_options_init leaves it
DEFAULT_DICT_SIZE == 33554432

\* call: the entry point called, set when the call is made
Inputs == [paths : InputLists, level : Levels, split_size : SplitSizes, call : {"none"}]

IdleCtx == [volumes |-> <<>>, current_volume_size |-> 0, bytes_written |-> 0,
            total_packed_size |-> 0, total_size |-> 0, max_volume_size |-> 0]

\* first: the bytes put into the first volume before any write_across_volumes;
\* calls: the data of the write_across_volumes calls so far, in call order;
\* runs: the coder runs so far
IdleLog == [first |-> <<>>, calls |-> <<>>, runs |-> <<>>]

IdleStream == [ok |-> FALSE, impl |-> "none", volumes |-> <<>>, volume_sizes |-> <<>>,
               volume_offsets |-> <<0>>, total_size |-> 0, current_pos |-> 0]

IdleRd == [op |-> "none"]

\* no call of another function made
PureIdle == arg = [op |-> "none"] /\ ans = [op |-> "none"]

VolumesIdle ==
    /\ disk = {}
    /\ base = <<>>
    /\ written = <<>>
    /\ stream = IdleStream
    /\ rd = IdleRd

Init ==
    /\ inp \in Inputs
    /\ pc = "idle"
    /\ ctx = IdleCtx
    /\ files = <<>>
    /\ fidx = 0
    /\ wlog = IdleLog
    /\ res = NoResult
    /\ VolumesIdle
    /\ PureIdle

\* a call that ends in one step with the result r
Returns(call, r) ==
    /\ inp' = [inp EXCEPT !.call = call]
    /\ res' = r
    /\ pc' = "done"
    /\ UNCHANGED <<ctx, files, fidx, wlog, volumeVars, pureVars>>

\* a whole call of sevenzip_create_7z with options = NULL
Create7z ==
    /\ pc = "idle"
    /\ \E g \in GarbageBytes :
          Returns("create_7z", sevenzip_create_7z(inp.paths, inp.level, 0, g))

\* a whole call of sevenzip_create_7z_true_streaming
TrueStreaming ==
    /\ pc = "idle"
    /\ Returns("true_streaming", sevenzip_create_7z_true_streaming(inp.paths))

\* sevenzip_create_multivolume_7z_complete up to the loop over the files: the
\* entries are gathered, the first volume is opened and the 32 bytes of the
\* signature header are written into it directly
MVStart(call) ==
    LET list == mv_gather(<<>>, inp.paths, 1)
        c0 == [IdleCtx EXCEPT !.max_volume_size = inp.split_size,
                              !.total_size = SizeSum(list)]
        c1 == open_new_volume(c0)
        c2 == [c1 EXCEPT !.volumes[1] = @ \o SignatureHeaderPlaceholder,
                         !.current_volume_size = @ + Len(SignatureHeaderPlaceholder),
                         !.bytes_written = 0, !.total_packed_size = 0]
    IN  IF inp.split_size = 0 \/ Len(list) = 0
        THEN Returns(call, Failure("multivolume", SEVENZIP_ERROR_INVALID_PARAM))
        ELSE /\ inp' = [inp EXCEPT !.call = call]
             /\ ctx' = c2
             /\ files' = list
             /\ fidx' = 1
             /\ wlog' = [first |-> SignatureHeaderPlaceholder, calls |-> <<>>, runs |-> <<>>]
             /\ pc' = "mv_files"
             /\ res' = [NoResult EXCEPT !.api = "multivolume"]
             /\ UNCHANGED <<volumeVars, pureVars>>

\* a direct call of sevenzip_create_multivolume_7z_complete
MVBegin ==
    /\ pc = "idle"
    /\ MVStart("multivolume")

\* one round of the loop over the files
MVFile ==
    /\ pc = "mv_files"
    /\ fidx <= Len(files)
    /\ LET file == files[fidx]
           r == IF inp.level = SEVENZIP_LEVEL_STORE
                THEN store_file_uncompressed(ctx, file.full_path, file.size)
                ELSE compress_file_streaming(ctx, file.full_path,
                                             mv_dictSize(inp.level, DEFAULT_DICT_SIZE))
       IN  /\ files' = [files EXCEPT ![fidx].crc = r.crc, ![fidx].lzma2_prop = r.prop,
                                     ![fidx].data = r.data]
           /\ ctx' = [r.ctx EXCEPT !.total_packed_size = @ + r.packed_size]
           /\ wlog' = [wlog EXCEPT
                  !.calls = IF Len(r.passed) > 0 THEN Append(@, r.passed) ELSE @,
                  !.runs = Append(@, [copy |-> (r.prop = 0), input |-> r.data,
                                      output |-> r.passed])]
    /\ fidx' = fidx + 1
    /\ UNCHANGED <<inp, pc, res, volumeVars, pureVars>>

\* after the loop: the header is built and written, the start header is patched
\* into the first volume, the volumes are closed
MVFinish ==
    /\ pc = "mv_files"
    /\ fidx > Len(files)
    /\ LET header == build_7z_header(files, ctx.total_packed_size)
           c1 == write_across_volumes(ctx, header)
           c2 == [c1 EXCEPT !.volumes[1] =
                     mv_UpdateStartHeader(@, ctx.total_packed_size, Len(header), CrcCalc(header))]
       IN  /\ ctx' = c2
           /\ wlog' = [wlog EXCEPT !.calls = Append(@, header)]
           /\ res' = [api |-> "multivolume", ret |-> SEVENZIP_OK, volumes |-> c2.volumes,
                      header |-> header, pack |-> Concat(wlog.calls), runs |-> wlog.runs,
                      entries |-> Entries(files),
                      sections |-> [names |-> NameList(files), mtimes |-> MTimeList(files),
                                    attribs |-> AttribList(files),
                                    sizes |-> mv_SizeList(files), crcs |-> mv_CrcList(files)]]
    /\ pc' = "done"
    /\ UNCHANGED <<inp, files, fidx, volumeVars, pureVars>>

\* sevenzip_create_7z_streaming with options from sevenzip_stream_options_init
\* and the split size of the call
Streaming ==
    /\ pc = "idle"
    /\ LET g == gather_inputs(<<>>, inp.paths, 1)
       IN  IF inp.split_size = 0
           THEN \E b \in GarbageBytes :
                   Returns("streaming",
                           sevenzip_create_7z(inp.paths, inp.level, DEFAULT_DICT_SIZE, b))
           ELSE IF ~g.ok \/ Len(g.sizes) = 0
           THEN Returns("streaming", Failure("streaming", SEVENZIP_ERROR_INVALID_PARAM))
           ELSE IF SumSeq(g.sizes) <= inp.split_size
           THEN \E b \in GarbageBytes :
                   Returns("streaming",
                           sevenzip_create_7z(inp.paths, inp.level, DEFAULT_DICT_SIZE, b))
           ELSE MVStart("streaming")

Next == Create7z \/ TrueStreaming \/ MVBegin \/ MVFile \/ MVFinish \/ Streaming

Spec == Init /\ [][Next]_vars

\* file lists that hold the file of more than 1 KiB, alone or with one other path
EquivLists ==
    {<<PathK>>} \cup {<<PathK, p>> : p \in InputPaths} \cup {<<p, PathK>> : p \in InputPaths}

\* split sizes above 1 KiB, below and above the size of what the lists hold
EquivSplitSizes == {1025, 2048}

EquivInputs == [paths : EquivLists, level : Levels, split_size : EquivSplitSizes, call : {"none"}]

InitEquiv ==
    /\ inp \in EquivInputs
    /\ pc = "idle"
    /\ ctx = IdleCtx
    /\ files = <<>>
    /\ fidx = 0
    /\ wlog = IdleLog
    /\ res = NoResult
    /\ VolumesIdle
    /\ PureIdle

SpecEquiv == InitEquiv /\ [][Next]_vars

(***************************************************************************)
(* Reading an archive back: the vocabulary of the properties below         *)
(***************************************************************************)
\* a create call has returned SEVENZIP_OK
Created == pc = "done" /\ res.ret = SEVENZIP_OK

\* the logical archive: the volumes joined in order
LogicalArchive == Concat(res.volumes)

\* bytes lo..hi of the logical archive, counted from 0
ArchiveBytes(lo, hi) == SubSeq(LogicalArchive, lo + 1, hi + 1)

StartHeaderCRC == ArchiveBytes(8, 11)
NextHeaderOffset == LEValue(ArchiveBytes(12, 19))
NextHeaderSize == LEValue(ArchiveBytes(20, 27))
NextHeaderCRC == ArchiveBytes(28, 31)

\* the bytes between the signature header and the Header Block written last
BytesBeforeHeader == Len(LogicalArchive) - k7zStartHeaderSize - Len(res.header)

\* the pack size PackInfo states: PackInfo id, pack position, stream count,
\* Size id, size
PackInfoPackSize ==
    LET p == IF res.header[2] = k7zIdPackInfo THEN 2 ELSE 3
    IN  LEValue(ReadNumber(res.header, p + 4).value)

\* a 7z number at pos of buf, as an integer
NumberAt(buf, pos) == LEValue(ReadNumber(buf, pos).value)

\* the position after the 7z number at pos
AfterNumber(buf, pos) == pos + ReadNumber(buf, pos).used

\* count 7z numbers read one after the other from pos
RECURSIVE ReadNumbers(_, _, _)
ReadNumbers(buf, pos, count) ==
    IF count <= 0 THEN [values |-> <<>>, pos |-> pos]
    ELSE LET rest == ReadNumbers(buf, AfterNumber(buf, pos), count - 1)
         IN  [values |-> <<NumberAt(buf, pos)>> \o rest.values, pos |-> rest.pos]

\* count items of width bytes each, from pos
FixedItems(buf, pos, count, width) ==
    [k \in 1..count |-> SubSeq(buf, pos + (k - 1) * width, pos + k * width - 1)]

\* the names of a Names property: UTF-16LE code units up to a zero unit, each
\* name given by the low bytes of its units
RECURSIVE SplitNames(_, _)
SplitNames(bytes, current) ==
    IF Len(bytes) < 2 THEN <<>>
    ELSE IF bytes[1] = 0 /\ bytes[2] = 0
    THEN <<current>> \o SplitNames(Drop(bytes, 2), <<>>)
    ELSE SplitNames(Drop(bytes, 2), Append(current, bytes[1]))

\* Reads a Header Block of the layout sevenzip_create_7z and
\* build_7z_header write: Header, MainStreamsInfo (PackInfo, UnpackInfo with one
\* folder of one coder, SubStreamsInfo), FilesInfo (EmptyStream if present,
\* Names, MTime, WinAttrib).  wellformed tells that every property id stood
\* where this layout puts it.
DecodeHeader(h) ==
    LET pPackPos   == 4
        pNumPack   == AfterNumber(h, pPackPos)
        pSizeId    == AfterNumber(h, pNumPack)
        pPackEnd   == AfterNumber(h, pSizeId + 1)
        pUnpack    == pPackEnd + 1
        pCoder     == pUnpack + 5
        coderLen   == IF h[pCoder] = 1 THEN 2 ELSE 4
        pUnpackSz  == pCoder + coderLen
        pUnpackEnd == AfterNumber(h, pUnpackSz + 1)
        pSub       == pUnpackEnd + 1
        n          == NumberAt(h, pSub + 2)
        pAfterN    == AfterNumber(h, pSub + 2)
        sizes      == IF h[pAfterN] = k7zIdSize THEN ReadNumbers(h, pAfterN + 1, n - 1)
                      ELSE [values |-> <<>>, pos |-> pAfterN]
        pCrc       == sizes.pos
        pSubEnd    == pCrc + 2 + 4 * n
        pFiles     == pSubEnd + 2
        numFiles   == NumberAt(h, pFiles + 1)
        pProps     == AfterNumber(h, pFiles + 1)
        hasEmpty   == h[pProps] = k7zIdEmptyStream
        maskLen    == IF hasEmpty THEN NumberAt(h, pProps + 1) ELSE 0
        pNames     == IF hasEmpty THEN AfterNumber(h, pProps + 1) + maskLen ELSE pProps
        namesSize  == NumberAt(h, pNames + 1)
        pNameData  == AfterNumber(h, pNames + 1) + 1
        pMTime     == pNameData + namesSize - 1
        pMTimeData == AfterNumber(h, pMTime + 1) + 2
        pAttrib    == pMTimeData + 8 * numFiles
        pAttrData  == AfterNumber(h, pAttrib + 1) + 2
        pEnd       == pAttrData + 4 * numFiles
    IN  [wellformed |->
            /\ SubSeq(h, 1, 3) = <<k7zIdHeader, k7zIdMainStreamsInfo, k7zIdPackInfo>>
            /\ h[pSizeId] = k7zIdSize /\ h[pPackEnd] = k7zIdEnd
            /\ SubSeq(h, pUnpack, pUnpack + 4) = <<k7zIdUnpackInfo, k7zIdFolder, 1, 0, 1>>
            /\ h[pUnpackSz] = k7zIdCodersUnpackSize /\ h[pUnpackEnd] = k7zIdEnd
            /\ SubSeq(h, pSub, pSub + 1) = <<k7zIdSubStreamsInfo, k7zIdNumUnpackStream>>
            /\ SubSeq(h, pCrc, pCrc + 1) = <<k7zIdCRC, 1>>
            /\ SubSeq(h, pSubEnd, pSubEnd + 1) = <<k7zIdEnd, k7zIdEnd>>
            /\ h[pFiles] = k7zIdFilesInfo
            /\ h[pNames] = k7zIdName /\ h[pNameData - 1] = 0
            /\ h[pMTime] = k7zIdMTime /\ SubSeq(h, pMTimeData - 2, pMTimeData - 1) = <<1, 0>>
            /\ h[pAttrib] = k7zIdWinAttrib /\ SubSeq(h, pAttrData - 2, pAttrData - 1) = <<1, 0>>
            /\ SubSeq(h, pEnd, Len(h)) = <<k7zIdEnd, k7zIdEnd>>,
         pack_size |-> NumberAt(h, pSizeId + 1),
         coder |-> SubSeq(h, pCoder, pCoder + coderLen - 1),
         unpack_size |-> NumberAt(h, pUnpackSz + 1),
         num_streams |-> n,
         sizes |-> sizes.values,
         crcs |-> FixedItems(h, pCrc + 2, n, 4),
         num_files |-> numFiles,
         empty_stream |-> IF hasEmpty THEN SubSeq(h, pNames - maskLen, pNames - 1) ELSE <<>>,
         names |-> SplitNames(SubSeq(h, pNameData, pMTime - 1), <<>>),
         mtimes |-> FixedItems(h, pMTimeData, numFiles, 8),
         attribs |-> FixedItems(h, pAttrData, numFiles, 4)]

\* the coder the Folder of a multi-volume archive states, applied to data
mv_FolderCoder(data) ==
    IF mv_PropByte(files) = 0 THEN CopyCoder(data) ELSE Lzma2Enc_Encode2(data)

AllInputsRegular == \A i \in 1..Len(inp.paths) : S_ISREG(STAT(inp.paths[i]))

\* C1: every archive sevenzip_create_multivolume_7z_complete makes from a list
\* of regular files has as its packed region the output of one run of the coder
\* its Folder states over the contents of all the files, joined in list order.
C1_PackedRegionIsOneCoderRun ==
    (Created /\ res.api = "multivolume" /\ AllInputsRegular)
        => res.pack = mv_FolderCoder(Concat([i \in 1..Len(files) |-> files[i].data]))

\* C2: after a successful create the logical archive starts with the 7z magic
\* and version 0.4, StartHeaderCRC is the CRC32 of bytes 12..31, NextHeaderSize
\* is the length of the Header Block written at the end of the archive and
\* NextHeaderCRC is the CRC32 of that block.
C2_SignatureHeaderIsConsistent ==
    Created =>
        /\ ArchiveBytes(0, 5) = k7zSignature
        /\ ArchiveBytes(6, 7) = <<0, 4>>
        /\ StartHeaderCRC = CrcCalc(ArchiveBytes(12, 31))
        /\ NextHeaderSize = Len(res.header)
        /\ Drop(LogicalArchive, Len(LogicalArchive) - Len(res.header)) = res.header
        /\ NextHeaderCRC = CrcCalc(res.header)

\* a multi-volume archive whose signature header lies in a first volume of its
\* own, with packed data and the Header Block in later volumes
C2_Witness ==
    /\ Created
    /\ res.api = "multivolume"
    /\ Len(res.volumes) >= 3
    /\ NextHeaderOffset > 0
    /\ NextHeaderSize > inp.split_size

\* C3: after a successful create NextHeaderOffset and the pack size of PackInfo
\* both equal the number of bytes written between the signature header and the
\* Header Block, also when a file delivered fewer bytes than its scanned size.
C3_OffsetAndPackSizeAreBytesWritten ==
    Created =>
        /\ NextHeaderOffset = BytesBeforeHeader
        /\ PackInfoPackSize = BytesBeforeHeader

\* the stream the coder of a single-folder archive was run over
UnpackedStream == IF res.runs = <<>> THEN <<>> ELSE res.runs[1].input

\* the size of the k-th substream a decoded header d states: the k-th written
\* size, and for the last substream what is left of the folder's unpack size
SubStreamSize(d, k) ==
    IF k < d.num_streams THEN d.sizes[k] ELSE d.unpack_size - SumSeq(d.sizes)

\* the k-th slice of the unpacked stream by the sizes d states
SubStreamSlice(d, k) ==
    LET before == SumSeq([j \in 1..(k - 1) |-> SubStreamSize(d, j)])
    IN  SubSeq(UnpackedStream, before + 1, before + SubStreamSize(d, k))

\* C4: the header sevenzip_create_7z writes holds name, mtime and attributes of
\* every entry in list order; the k-th size and the k-th CRC of SubStreamsInfo
\* are those of the k-th non-directory entry, and the CRC is the CRC32 of the
\* bytes that entry contributed as the k-th slice of the unpacked stream.
C4_HeaderDescribesEntriesInOrder ==
    (Created /\ res.api = "create_7z") =>
        LET d == DecodeHeader(res.header)
            nd == NonDirs(res.entries)
        IN  /\ d.wellformed
            /\ d.num_files = Len(res.entries)
            /\ d.names = [k \in 1..Len(res.entries) |-> res.entries[k].name]
            /\ d.mtimes = [k \in 1..Len(res.entries) |-> res.entries[k].mtime]
            /\ d.attribs = [k \in 1..Len(res.entries) |-> LE32(res.entries[k].attrib)]
            /\ d.num_streams = Len(nd)
            /\ \A k \in 1..Len(nd) :
                  /\ SubStreamSize(d, k) = nd[k].size
                  /\ SubStreamSlice(d, k) = nd[k].data
                  /\ d.crcs[k] = CrcCalc(SubStreamSlice(d, k))

\* an archive of a directory tree and a further file: a directory entry among
\* the entries and three files with data behind one LZMA2 coder
C4_Witness ==
    /\ Created
    /\ res.api = "create_7z"
    /\ Len(inp.paths) = 2
    /\ \E k \in 1..Len(res.entries) : res.entries[k].is_dir
    /\ Cardinality({k \in 1..Len(res.entries) : Len(res.entries[k].data) > 0}) >= 3
    /\ ~res.runs[1].copy

\* the multi-volume writer is at work or has finished
MVRunning == pc \in {"mv_files", "done"} /\ res.api = "multivolume" /\ ctx.volumes # <<>>

\* C5: with max_volume_size > 0, after any sequence of write_across_volumes
\* calls the volumes joined in order are the bytes the first volume held
\* before, followed by the data of all the calls in call order (at the end the
\* start header fields inside those first bytes have been filled in).
C5_VolumesHoldFirstBytesThenCalls ==
    MVRunning =>
        /\ Drop(Concat(ctx.volumes), Len(wlog.first)) = Concat(wlog.calls)
        /\ pc = "mv_files" => Take(Concat(ctx.volumes), Len(wlog.first)) = wlog.first
        /\ Len(Concat(ctx.volumes)) = Len(wlog.first) + ctx.bytes_written

\* several calls, one of them longer than a volume, spread over four volumes
C5_Witness ==
    /\ MVRunning
    /\ ctx.max_volume_size >= k7zStartHeaderSize
    /\ Len(wlog.calls) >= 3
    /\ \E k \in 1..Len(wlog.calls) : Len(wlog.calls[k]) > ctx.max_volume_size
    /\ Len(ctx.volumes) >= 4

\* C6: after sevenzip_create_multivolume_7z_complete succeeds with split size
\* S > 0 every volume but the last holds exactly S bytes and the last holds
\* between 1 and S bytes.
C6_VolumesFilledToSplitSize ==
    (Created /\ res.api = "multivolume") =>
        /\ \A k \in 1..(Len(res.volumes) - 1) : Len(res.volumes[k]) = inp.split_size
        /\ Len(res.volumes[Len(res.volumes)]) \in 1..inp.split_size

(***************************************************************************)
(* Volume files on disk.  disk is the set of files, each [name, data];     *)
(* names are tuples of character codes.                                    *)
(***************************************************************************)
Exists(name) == \E f \in disk : f.name = name

FileData(name) == (CHOOSE f \in disk : f.name = name).data

\* fopen(name, "wb"), fwrite(data), fclose
WithFile(d, name, data) == {f \in d : f.name # name} \cup {[name |-> name, data |-> data]}

\* the decimal digits of n >= 0
RECURSIVE Decimal(_)
Decimal(n) == IF n < 10 THEN <<ZeroChar + n>> ELSE Append(Decimal(n \div 10), ZeroChar + (n % 10))

\* "%03d": the decimal digits, with zeros in front up to a width of three
Format03d(n) ==
    [i \in 1..(3 - Min(3, Len(Decimal(n)))) |-> ZeroChar] \o Decimal(n)

\* "%s.%03d" with index + 1
get_volume_filename(base_path, index) == base_path \o <<DotChar>> \o Format03d(index + 1)

\* sizes to offsets: offsets[1] = 0, offsets[i + 1] = offsets[i] + sizes[i]
Offsets(sizes) == [i \in 1..(Len(sizes) + 1) |-> SumSeq(SubSeq(sizes, 1, i - 1))]

\* the stream structure over the opened files, in the order they were opened
OpenedStream(impl, names) ==
    LET sizes == [i \in 1..Len(names) |-> Len(FileData(names[i]))]
    IN  [ok |-> TRUE, impl |-> impl, volumes |-> names, volume_sizes |-> sizes,
         volume_offsets |-> Offsets(sizes), total_size |-> SumSeq(sizes), current_pos |-> 0]

NotOpened(impl) ==
    [ok |-> FALSE, impl |-> impl, volumes |-> <<>>, volume_sizes |-> <<>>,
     volume_offsets |-> <<0>>, total_size |-> 0, current_pos |-> 0]

\* the highest volume number open_split_volumes of archive_extract_split.c tries
MaxVolumeNumber == 999

\* the highest volume number open_split_volumes of archive_test.c tries
test_MaxVolumeNumber == 256

\* the part of first_volume_path that is kept: the last four characters go
\* when they are a dot followed by a digit and two more characters
StripVolumeSuffix(path) ==
    LET len == Len(path)
    IN  IF len > 4 /\ path[len - 3] = DotChar
           /\ path[len - 2] >= ZeroChar /\ path[len - 2] <= NineChar
        THEN Take(path, len - 4) ELSE path

\* for (i = 1; i <= last; i++): volume i is opened, or the loop breaks
RECURSIVE OpenVolumesFrom(_, _, _, _)
OpenVolumesFrom(base_path, i, last, names) ==
    IF i > last THEN names
    ELSE IF i = 1
    THEN IF Exists(get_volume_filename(base_path, 0))
         THEN OpenVolumesFrom(base_path, 2, last, <<get_volume_filename(base_path, 0)>>)
         ELSE IF Exists(base_path)
         THEN OpenVolumesFrom(base_path, 2, last, <<base_path>>)
         ELSE names
    ELSE IF Exists(get_volume_filename(base_path, i - 1))
         THEN OpenVolumesFrom(base_path, i + 1, last,
                              Append(names, get_volume_filename(base_path, i - 1)))
         ELSE names

\* open_split_volumes of archive_extract_split.c
open_split_volumes(first_volume_path) ==
    LET names == OpenVolumesFrom(StripVolumeSuffix(first_volume_path), 1, MaxVolumeNumber, <<>>)
    IN  IF Len(names) = 0 THEN NotOpened("extract") ELSE OpenedStream("extract", names)

\* for (i = 2; i <= 256; i++) of archive_test.c
RECURSIVE test_OpenMore(_, _, _)
test_OpenMore(base_path, i, names) ==
    IF i > test_MaxVolumeNumber \/ ~Exists(get_volume_filename(base_path, i - 1)) THEN names
    ELSE test_OpenMore(base_path, i + 1, Append(names, get_volume_filename(base_path, i - 1)))

\* open_split_volumes of archive_test.c: base_path itself first, then base_path.001
test_open_split_volumes(base_path) ==
    IF Exists(base_path) THEN OpenedStream("test", <<base_path>>)
    ELSE IF ~Exists(get_volume_filename(base_path, 0)) THEN NotOpened("test")
    ELSE OpenedStream("test",
             test_OpenMore(base_path, 2, <<get_volume_filename(base_path, 0)>>))

\* the volume the position lies in: the first i with current_pos below
\* volume_offsets[i + 1], volume 0 when there is none (indices from 0)
VolumeIdx(s) ==
    LET hits == {i \in 0..(Len(s.volumes) - 1) : s.current_pos < s.volume_offsets[i + 2]}
    IN  IF hits = {} THEN 0 ELSE CHOOSE i \in hits : \A j \in hits : i <= j

\* fseek(vol, volume_pos), fread(ptr, 1, to_read, vol)
VolumeRead(name, volume_pos, to_read) ==
    SubSeq(FileData(name), volume_pos + 1, Min(Len(FileData(name)), volume_pos + to_read))

\* a variant without the loop: one volume is read from and the call returns
MultiVolumeInStream_ReadLoop_OneRound(s, remaining, got) ==
    IF remaining > 0 /\ s.current_pos < s.total_size
    THEN LET volume_idx == VolumeIdx(s)
             volume_pos == s.current_pos - s.volume_offsets[volume_idx + 1]
             volume_remaining == s.volume_sizes[volume_idx + 1] - volume_pos
             to_read == Min(remaining, volume_remaining)
             bytes == VolumeRead(s.volumes[volume_idx + 1], volume_pos, to_read)
         IN  IF Len(bytes) = 0 /\ to_read > 0
             THEN [stream |-> s, bytes |-> got, failed |-> TRUE]
             ELSE [stream |-> [s EXCEPT !.current_pos = @ + Len(bytes)],
                   bytes |-> got \o bytes, failed |-> FALSE]
    ELSE [stream |-> s, bytes |-> got, failed |-> FALSE]

\* while (remaining > 0 && current_pos < total_size), the same text in
\* archive_extract_split.c and archive_test.c; failed: left by return SZ_ERROR_READ
RECURSIVE MultiVolumeInStream_ReadLoop(_, _, _)
MultiVolumeInStream_ReadLoop(s, remaining, got) ==
    IF remaining > 0 /\ s.current_pos < s.total_size
    THEN LET volume_idx == VolumeIdx(s)
             volume_pos == s.current_pos - s.volume_offsets[volume_idx + 1]
             volume_remaining == s.volume_sizes[volume_idx + 1] - volume_pos
             to_read == Min(remaining, volume_remaining)
             bytes == VolumeRead(s.volumes[volume_idx + 1], volume_pos, to_read)
         IN  IF Len(bytes) = 0 /\ to_read > 0
             THEN [stream |-> s, bytes |-> got, failed |-> TRUE]
             ELSE MultiVolumeInStream_ReadLoop([s EXCEPT !.current_pos = @ + Len(bytes)],
                                               remaining - Len(bytes), got \o bytes)
    ELSE [stream |-> s, bytes |-> got, failed |-> FALSE]

\* MultiVolumeInStream_Read of archive_extract_split.c
MultiVolumeInStream_Read(s, size) ==
    LET r == MultiVolumeInStream_ReadLoop(s, size, <<>>)
    IN  [stream |-> r.stream, bytes |-> r.bytes,
         ret |-> IF r.failed THEN "SZ_ERROR_READ" ELSE "SZ_OK"]

\* MultiVolumeInStream_Read of archive_test.c
test_MultiVolumeInStream_Read(s, size) ==
    LET r == MultiVolumeInStream_ReadLoop(s, size, <<>>)
    IN  [stream |-> r.stream, bytes |-> r.bytes,
         ret |-> IF r.failed \/ Len(r.bytes) = 0 THEN "SZ_ERROR_READ" ELSE "SZ_OK"]

\* the position a seek asks for
SeekTarget(s, pos, origin) ==
    CASE origin = "SZ_SEEK_SET" -> pos
      [] origin = "SZ_SEEK_CUR" -> s.current_pos + pos
      [] origin = "SZ_SEEK_END" -> s.total_size + pos

\* in uint64_t a sum below zero wraps to a value above every total
BeyondEnd(s, target) == target < 0 \/ target > s.total_size

\* a variant that takes over the position asked for as it is
MultiVolumeInStream_Seek_Unchecked(s, pos, origin) ==
    [stream |-> [s EXCEPT !.current_pos = SeekTarget(s, pos, origin)], ret |-> "SZ_OK"]

\* MultiVolumeInStream_Seek of archive_extract_split.c: the position is clamped
MultiVolumeInStream_Seek(s, pos, origin) ==
    [stream |-> [s EXCEPT !.current_pos = IF BeyondEnd(s, SeekTarget(s, pos, origin))
                                          THEN s.total_size
                                          ELSE SeekTarget(s, pos, origin)],
     ret |-> "SZ_OK"]

\* MultiVolumeInStream_Seek of archive_test.c: a position beyond the end is refused
test_MultiVolumeInStream_Seek(s, pos, origin) ==
    IF BeyondEnd(s, SeekTarget(s, pos, origin))
    THEN [stream |-> s, ret |-> "SZ_ERROR_PARAM"]
    ELSE [stream |-> [s EXCEPT !.current_pos = SeekTarget(s, pos, origin)], ret |-> "SZ_OK"]

(***************************************************************************)
(* Writing and opening volume files                                        *)
(***************************************************************************)
MaxVolumes == 3

MaxRead == 3

\* "x", "ab.7z" and "v.3gp"
BasePaths == {<<120>>, <<97, 98, 46, 55, 122>>, <<118, 46, 51, 103, 112>>}

VolumeLens == {0, 1, 2}

\* len bytes that tell which file they are in and where
VolumeBytes(tag, len) == [j \in 1..len |-> 16 * tag + j]

SeekOrigins == {"SZ_SEEK_SET", "SZ_SEEK_CUR", "SZ_SEEK_END"}

SeekOffsets == {-1, 0, 1, 2, 5}

NoInput == [paths |-> <<>>, level |-> SEVENZIP_LEVEL_STORE, split_size |-> 0, call |-> "none"]

InitVolumes ==
    /\ inp = NoInput
    /\ pc = "disk"
    /\ ctx = IdleCtx
    /\ files = <<>>
    /\ fidx = 0
    /\ wlog = IdleLog
    /\ res = NoResult
    /\ disk = {}
    /\ base \in BasePaths
    /\ written = <<>>
    /\ stream = IdleStream
    /\ rd = IdleRd
    /\ PureIdle

\* a file named base or base.NNN comes to lie on the disk, put there by
\* someone else than the writer
PlaceFile ==
    /\ pc = "disk"
    /\ written = <<>>
    /\ \E k \in 0..MaxVolumes, len \in VolumeLens :
          LET name == IF k = 0 THEN base ELSE get_volume_filename(base, k - 1)
          IN  /\ ~Exists(name)
              /\ disk' = WithFile(disk, name, VolumeBytes(k, len))
    /\ UNCHANGED <<createVars, base, written, stream, rd, pureVars>>

\* open_new_volume of the writer for base, and the data written into the
\* volume before the next one is opened
OpenNewVolume ==
    /\ pc = "disk"
    /\ Cardinality(disk) = Len(written)
    /\ Len(written) < MaxVolumes
    /\ \E len \in VolumeLens \ {0} :
          disk' = WithFile(disk, get_volume_filename(base, Len(written)),
                           VolumeBytes(Len(written) + 1, len))
    /\ written' = Append(written, get_volume_filename(base, Len(written)))
    /\ UNCHANGED <<createVars, base, stream, rd, pureVars>>

\* open_split_volumes of archive_extract_split.c, called with base or base.001
OpenSplit ==
    /\ pc = "disk"
    /\ \E path \in {base, get_volume_filename(base, 0)} :
          /\ stream' = open_split_volumes(path)
          /\ rd' = [op |-> "open", path |-> path]
    /\ pc' = "open"
    /\ UNCHANGED <<inp, ctx, files, fidx, wlog, res, disk, base, written, pureVars>>

\* open_split_volumes of archive_test.c, called with base
TestOpenSplit ==
    /\ pc = "disk"
    /\ stream' = test_open_split_volumes(base)
    /\ rd' = [op |-> "open", path |-> base]
    /\ pc' = "open"
    /\ UNCHANGED <<inp, ctx, files, fidx, wlog, res, disk, base, written, pureVars>>

\* a Seek on the stream of archive_extract_split.c
StreamSeek ==
    /\ pc = "open" /\ stream.ok /\ stream.impl = "extract"
    /\ \E pos \in SeekOffsets, origin \in SeekOrigins :
          LET r == MultiVolumeInStream_Seek(stream, pos, origin)
          IN  /\ stream' = r.stream
              /\ rd' = [op |-> "seek", ret |-> r.ret,
                        target |-> SeekTarget(stream, pos, origin)]
    /\ UNCHANGED <<createVars, disk, base, written, pureVars>>

\* a Seek on the stream of archive_test.c
TestStreamSeek ==
    /\ pc = "open" /\ stream.ok /\ stream.impl = "test"
    /\ \E pos \in SeekOffsets, origin \in SeekOrigins :
          LET r == test_MultiVolumeInStream_Seek(stream, pos, origin)
          IN  /\ stream' = r.stream
              /\ rd' = [op |-> "seek", ret |-> r.ret,
                        target |-> SeekTarget(stream, pos, origin)]
    /\ UNCHANGED <<createVars, disk, base, written, pureVars>>

\* a Read of size bytes on the stream of archive_extract_split.c
StreamRead ==
    /\ pc = "open" /\ stream.ok /\ stream.impl = "extract"
    /\ \E size \in 0..MaxRead :
          LET r == MultiVolumeInStream_Read(stream, size)
          IN  /\ stream' = r.stream
              /\ rd' = [op |-> "read", size |-> size, pos |-> stream.current_pos,
                        bytes |-> r.bytes, ret |-> r.ret]
    /\ UNCHANGED <<createVars, disk, base, written, pureVars>>

\* a Read of size bytes on the stream of archive_test.c
TestStreamRead ==
    /\ pc = "open" /\ stream.ok /\ stream.impl = "test"
    /\ \E size \in 0..MaxRead :
          LET r == test_MultiVolumeInStream_Read(stream, size)
          IN  /\ stream' = r.stream
              /\ rd' = [op |-> "read", size |-> size, pos |-> stream.current_pos,
                        bytes |-> r.bytes, ret |-> r.ret]
    /\ UNCHANGED <<createVars, disk, base, written, pureVars>>

NextVolumes ==
    \/ PlaceFile \/ OpenNewVolume \/ OpenSplit \/ TestOpenSplit
    \/ StreamSeek \/ TestStreamSeek \/ StreamRead \/ TestStreamRead

SpecVolumes == InitVolumes /\ [][NextVolumes]_vars

\* the volumes of the open stream joined in index order
StreamBytes == Concat([i \in 1..Len(stream.volumes) |-> FileData(stream.volumes[i])])

\* C7: a Read of m bytes at position p of a stream of total size T gives
\* exactly min(m, T - p) bytes, those at p .. p + min(m, T - p) - 1 of the
\* volumes joined in index order, and moves the position on by that count;
\* reads across volume boundaries and across empty volumes included.
C7_ReadGivesBytesOfConcatenation ==
    rd.op = "read" =>
        LET n == Min(rd.size, stream.total_size - rd.pos)
        IN  /\ rd.pos >= 0 /\ rd.pos <= stream.total_size
            /\ Len(rd.bytes) = n
            /\ rd.bytes = SubSeq(StreamBytes, rd.pos + 1, rd.pos + n)
            /\ stream.current_pos = rd.pos + n

\* a read that starts in one volume, passes an empty volume and ends in the
\* volume after it
C7_Witness ==
    /\ rd.op = "read"
    /\ stream.impl = "extract"
    /\ \E i \in 2..(Len(stream.volumes) - 1) :
          /\ stream.volume_sizes[i] = 0
          /\ rd.pos < stream.volume_offsets[i]
          /\ rd.pos + Len(rd.bytes) > stream.volume_offsets[i + 1]

\* base.NNN for volume number k, with k written as three digits
NumberedVolume(k) ==
    base \o <<DotChar, ZeroChar + ((k \div 100) % 10), ZeroChar + ((k \div 10) % 10),
              ZeroChar + (k % 10)>>

\* the volume numbers whose file is on the disk
NumbersPresent == {k \in 1..MaxVolumes : Exists(NumberedVolume(k))}

\* number 1 is there, a higher number is there, and a number between them is not
GapPastFirst ==
    /\ 1 \in NumbersPresent
    /\ \E k \in NumbersPresent : \E j \in 2..(k - 1) : j \notin NumbersPresent

\* C8: opening a volume source for base B opens B.001, B.002, ... in ascending
\* order; with a gap past 001 below an existing volume the open fails; with
\* B.001 absent and a file named B present the source is that file alone.
\* (Stated for the bases the reader takes as they are.)
C8_OpenAllFailOnGapOrSingleFile ==
    (rd.op = "open" /\ StripVolumeSuffix(base) = base) =>
        /\ (1 \in NumbersPresent /\ ~GapPastFirst) =>
               /\ stream.ok
               /\ stream.volumes = [k \in 1..Cardinality(NumbersPresent) |-> NumberedVolume(k)]
        /\ GapPastFirst => ~stream.ok
        /\ (1 \notin NumbersPresent /\ Exists(base)) =>
               /\ stream.ok
               /\ stream.volumes = <<base>>

\* the disk holds the volumes the writer created for base and nothing else
WriterMadeDisk == written # <<>> /\ Cardinality(disk) = Len(written)

\* C9: the k-th volume the multi-volume writer creates for base B is named
\* B.NNN with NNN the three digits of k, and open_split_volumes called with B
\* or with B.001 opens exactly the volumes written, in the order written.
C9_WriterNamesAndReaderOpensThem ==
    /\ \A k \in 1..Len(written) : written[k] = NumberedVolume(k)
    /\ (rd.op = "open" /\ stream.impl = "extract" /\ WriterMadeDisk) =>
           /\ stream.ok
           /\ stream.volumes = written

\* the single archive file sevenzip_create_7z_streaming makes of the same list
\* with split_size = 0, the never-initialised byte being garbage
SingleArchive(garbage) ==
    sevenzip_create_7z(inp.paths, inp.level, DEFAULT_DICT_SIZE, garbage)

\* C10: for every file list and every split_size above 1 KiB the volumes
\* sevenzip_create_7z_streaming produces, joined in order, are the single
\* archive file it produces for the same list, level and options with
\* split_size = 0.
C10_VolumesJoinedAreSingleArchive ==
    (Created /\ inp.call = "streaming" /\ inp.split_size > 1024) =>
        \E g \in GarbageBytes :
            /\ SingleArchive(g).ret = SEVENZIP_OK
            /\ LogicalArchive = Concat(SingleArchive(g).volumes)

(***************************************************************************)
(* The header of sevenzip_create_7z_true_streaming read back               *)
(***************************************************************************)
\* Reads a Header Block of the layout write_7z_archive of
\* archive_create_true_streaming.c writes: MainStreamsInfo (PackInfo,
\* UnpackInfo with one folder whose coder bytes follow the folder count,
\* SubStreamsInfo when more than one file has bytes), FilesInfo (Names,
\* EmptyStream if present, MTime).  The sizes of SubStreamsInfo are read as a
\* reader of the format does: one less than the streams declared.
ts_DecodeHeader(h) ==
    LET pPackPos   == 3
        pNumPack   == AfterNumber(h, pPackPos)
        pSizeId    == AfterNumber(h, pNumPack)
        pPackEnd   == AfterNumber(h, pSizeId + 1)
        pUnpack    == pPackEnd + 1
        pCoder     == pUnpack + 3
        pUnpackSz  == pCoder + 2
        pUnpackEnd == AfterNumber(h, pUnpackSz + 1)
        pSub       == pUnpackEnd + 1
        hasSub     == h[pSub] = k7zIdSubStreamsInfo
        n          == IF hasSub THEN NumberAt(h, pSub + 2) ELSE 1
        pAfterN    == AfterNumber(h, pSub + 2)
        sizes      == IF hasSub /\ h[pAfterN] = k7zIdSize THEN ReadNumbers(h, pAfterN + 1, n - 1)
                      ELSE [values |-> <<>>, pos |-> pAfterN]
        pCrc       == sizes.pos
        pSubEnd    == pCrc + 2 + 4 * n
        pMainEnd   == IF hasSub THEN pSubEnd + 1 ELSE pSub
        pFiles     == pMainEnd + 1
        numFiles   == NumberAt(h, pFiles + 1)
        pNames     == AfterNumber(h, pFiles + 1)
        namesSize  == NumberAt(h, pNames + 1)
        pNameData  == AfterNumber(h, pNames + 1) + 1
        pProps     == pNameData + namesSize - 1
        hasEmpty   == h[pProps] = k7zIdEmptyStream
        maskLen    == IF hasEmpty THEN NumberAt(h, pProps + 1) ELSE 0
        pMask      == AfterNumber(h, pProps + 1)
    IN  [streams_wellformed |->
            hasSub =>
              /\ h[pSub + 1] = k7zIdNumUnpackStream
              /\ h[pAfterN] = k7zIdSize
              /\ pSubEnd <= Len(h)
              /\ SubSeq(h, pCrc, pCrc + 1) = <<k7zIdCRC, 1>>
              /\ h[pSubEnd] = k7zIdEnd,
         coder |-> SubSeq(h, pCoder, pCoder + 1),
         has_substreams |-> hasSub,
         num_streams |-> n,
         sizes |-> sizes.values,
         crcs |-> IF hasSub /\ pSubEnd <= Len(h) THEN FixedItems(h, pCrc + 2, n, 4) ELSE <<>>,
         num_files |-> numFiles,
         empty_stream |-> IF hasEmpty THEN SubSeq(h, pMask, pMask + maskLen - 1) ELSE <<>>]

\* the coder record of the Folder in the header a create call wrote
HeaderCoder ==
    IF res.api = "true_streaming" THEN ts_DecodeHeader(res.header).coder
    ELSE DecodeHeader(res.header).coder

\* coder records: Copy is id 00 of one byte without properties, LZMA2 is id 21
\* of one byte with one property byte
IsCopyCoder(c) == c = <<1, 0>>
IsLzma2Coder(c) == Len(c) = 4 /\ SubSeq(c, 1, 3) = <<33, 33, 1>>

\* the bytes of all the input files together
TotalInputSize == SumSeq([i \in 1..Len(res.entries) |-> Len(res.entries[i].data)])

\* C11: after every successful create call the coder of the header is Copy when
\* the level is Store; LZMA2 when the level is not Store and the input is at
\* most 1 MiB; and, when the level is not Store and the input is larger, Copy
\* exactly when is_data_compressible judges the data incompressible, LZMA2
\* otherwise.
C11_CoderFollowsLevelAndSize ==
    Created =>
        /\ inp.level = SEVENZIP_LEVEL_STORE => IsCopyCoder(HeaderCoder)
        /\ (inp.level # SEVENZIP_LEVEL_STORE /\ TotalInputSize <= OneMiB)
              => IsLzma2Coder(HeaderCoder)
        /\ (inp.level # SEVENZIP_LEVEL_STORE /\ TotalInputSize > OneMiB)
              => /\ IsCopyCoder(HeaderCoder) <=> ~is_data_compressible(UnpackedStream)
                 /\ ~IsCopyCoder(HeaderCoder) => IsLzma2Coder(HeaderCoder)

(***************************************************************************)
(* is_data_compressible applied to buffers                                 *)
(***************************************************************************)
\* a buffer of len bytes in which distinct byte values take turns
CyclicBuffer(len, distinct) == [i \in 1..len |-> (i - 1) % distinct]

\* lengths around 256 (every byte value can occur), 512 (sample_size / 512
\* becomes 1) and 1024 (the size below which the function does not look)
HeuristicLens == {0, 255, 256, 511, 600, 1023, 1024, 1100, 2048}

\* numbers of byte values around 200 and 220
HeuristicDistinct == {1, 64, 199, 200, 201, 219, 220, 221, 256}

HeuristicArgs == [op : {"none"}, len : HeuristicLens, distinct : HeuristicDistinct]

\* the buffer of a call
ArgBuffer == CyclicBuffer(arg.len, arg.distinct)

InitHeuristic ==
    /\ inp = NoInput
    /\ pc = "pure"
    /\ ctx = IdleCtx
    /\ files = <<>>
    /\ fidx = 0
    /\ wlog = IdleLog
    /\ res = NoResult
    /\ VolumesIdle
    /\ arg \in HeuristicArgs
    /\ ans = [op |-> "none"]

\* a call of is_data_compressible of archive_create.c
IsDataCompressible ==
    /\ pc = "pure"
    /\ arg.op = "none"
    /\ arg' = [arg EXCEPT !.op = "is_data_compressible"]
    /\ ans' = [op |-> "is_data_compressible", ret |-> is_data_compressible(ArgBuffer)]
    /\ UNCHANGED <<createVars, volumeVars>>

\* a call of is_data_compressible of archive_create_multivolume.c
MvIsDataCompressible ==
    /\ pc = "pure"
    /\ arg.op = "none"
    /\ arg' = [arg EXCEPT !.op = "mv_is_data_compressible"]
    /\ ans' = [op |-> "mv_is_data_compressible", ret |-> mv_is_data_compressible(ArgBuffer)]
    /\ UNCHANGED <<createVars, volumeVars>>

NextHeuristic == IsDataCompressible \/ MvIsDataCompressible

SpecHeuristic == InitHeuristic /\ [][NextHeuristic]_vars

SampleMax == 65536

\* the byte values that occur more than sample_len / 512 times among the first
\* min(len, 64 KiB) bytes
FrequentValues(data) ==
    LET sample_len == Min(Len(data), SampleMax)
    IN  {b \in 0..255 : CountByte(data, sample_len, b) > sample_len \div 512}

\* C12: for every buffer is_data_compressible (of either file) reports the data
\* incompressible exactly when more than 220 byte values occur more than
\* sample_len / 512 times in the first min(len, 64 KiB) bytes.
C12_IncompressibleIffMoreThan220 ==
    arg.op \in {"is_data_compressible", "mv_is_data_compressible"} =>
        (~ans.ret <=> Cardinality(FrequentValues(ArgBuffer)) > 220)

(***************************************************************************)
(* sevenzip_compress (lzma_compress.c)                                     *)
(***************************************************************************)
SEVENZIP_ERROR_INVALID_ARCHIVE == 2
SEVENZIP_ERROR_EXTRACT == 4
SEVENZIP_ERROR_NOT_IMPLEMENTED == 7

\* read_file_contents: the bytes of the file, or nothing (NULL) when the file
\* cannot be opened or ftell gives a size of 0
read_file_contents(path) ==
    IF ~S_ISREG(STAT(path)) \/ Len(STAT(path).data) <= 0
    THEN [ok |-> FALSE, data |-> <<>>]
    ELSE [ok |-> TRUE, data |-> STAT(path).data]

\* the dictionary size get_lzma2_props_for_level sets
get_lzma2_props_for_level(level) ==
    CASE level = 0 -> 2^16
      [] level = 1 -> 2^18
      [] level = 3 -> 2^20
      [] level = 5 -> 2^23
      [] level = 7 -> 2^25
      [] level = 9 -> 2^26
      [] OTHER -> 2^23

\* the output file holds the property byte and then the LZMA2 stream
compress_single_file_lzma2(input_path, level) ==
    LET input == read_file_contents(input_path)
        prop == Lzma2Enc_WriteProperties(get_lzma2_props_for_level(level))
    IN  IF ~input.ok THEN [ret |-> SEVENZIP_ERROR_OPEN_FILE, written |-> FALSE, file |-> <<>>]
        ELSE [ret |-> SEVENZIP_OK, written |-> TRUE,
              file |-> <<prop>> \o Lzma2Enc_Encode2(input.data)]

sevenzip_compress(input_paths, level) ==
    IF Len(input_paths) = 0
    THEN [ret |-> SEVENZIP_ERROR_INVALID_PARAM, written |-> FALSE, file |-> <<>>]
    ELSE IF Len(input_paths) = 1 /\ S_ISREG(STAT(input_paths[1]))
    THEN compress_single_file_lzma2(input_paths[1], level)
    ELSE [ret |-> SEVENZIP_ERROR_NOT_IMPLEMENTED, written |-> FALSE, file |-> <<>>]

(***************************************************************************)
(* The 7z reader of the LZMA SDK (SzArEx_Open, SzArEx_Extract), taken for  *)
(* what the format requires of it.  An opened archive is given as the      *)
(* sequence of its entries, each with the result SzArEx_Extract has for it *)
(* and the bytes it delivers.                                              *)
(***************************************************************************)
\* the decoder of the LZMA2 streams Lzma2Enc_Encode2 is modelled to write
RECURSIVE Lzma2Dec_Decode(_)
Lzma2Dec_Decode(s) ==
    IF s = <<>> THEN [ok |-> FALSE, data |-> <<>>]
    ELSE IF s[1] = 0 THEN [ok |-> TRUE, data |-> <<>>]
    ELSE IF s[1] \in {1, 2} /\ Len(s) >= 3 /\ Len(s) >= 3 + (s[2] * 256 + s[3] + 1)
    THEN LET n == s[2] * 256 + s[3] + 1
             rest == Lzma2Dec_Decode(Drop(s, 3 + n))
         IN  [ok |-> rest.ok, data |-> SubSeq(s, 4, 3 + n) \o rest.data]
    ELSE [ok |-> FALSE, data |-> <<>>]

\* bit i (counted from 0) of an EmptyStream vector, most significant bit first
EmptyStreamBit(mask, i) ==
    IF mask = <<>> THEN FALSE
    ELSE (mask[(i \div 8) + 1] \div 2^(7 - (i % 8))) % 2 = 1

\* the entries of an archive whose header d was read and whose packed region
\* is pack: entry i is a directory when its EmptyStream bit is set, else it
\* owns the next slice of the unpacked folder
ArchiveEntries(d, pack) ==
    LET folder == IF d.coder = <<1, 0>> THEN [ok |-> TRUE, data |-> pack]
                  ELSE Lzma2Dec_Decode(pack)
        usizes == IF d.num_streams = 0 THEN <<>>
                  ELSE Append(d.sizes, d.unpack_size - SumSeq(d.sizes))
        streamOf(i) == Cardinality({j \in 1..i : ~EmptyStreamBit(d.empty_stream, j - 1)})
        slice(k) == SubSeq(folder.data, SumSeq(SubSeq(usizes, 1, k - 1)) + 1,
                           SumSeq(SubSeq(usizes, 1, k)))
    IN  [i \in 1..d.num_files |->
            IF EmptyStreamBit(d.empty_stream, i - 1)
            THEN [name |-> d.names[i], is_dir |-> TRUE, res |-> "SZ_OK", data |-> <<>>]
            ELSE LET k == streamOf(i)
                 IN  IF ~folder.ok \/ Len(folder.data) # d.unpack_size \/ k > d.num_streams
                     THEN [name |-> d.names[i], is_dir |-> FALSE, res |-> "SZ_ERROR_DATA",
                           data |-> <<>>]
                     ELSE IF CrcCalc(slice(k)) # d.crcs[k]
                     THEN [name |-> d.names[i], is_dir |-> FALSE, res |-> "SZ_ERROR_CRC",
                           data |-> <<>>]
                     ELSE [name |-> d.names[i], is_dir |-> FALSE, res |-> "SZ_OK",
                           data |-> slice(k)]]

\* The reader takes a Header Block in four steps, each from the position the
\* step before it reached: PackInfo, UnpackInfo (one folder of one coder),
\* SubStreamsInfo, FilesInfo (EmptyStream if present, Names, MTime, WinAttrib).
\* ok tells that every property id stood where the step expects it.
ReadPackInfo(h) ==
    LET pNumPack == AfterNumber(h, 4)
        pSizeId  == AfterNumber(h, pNumPack)
        pPackEnd == AfterNumber(h, pSizeId + 1)
    IN  [ok |-> /\ SubSeq(h, 1, 3) = <<k7zIdHeader, k7zIdMainStreamsInfo, k7zIdPackInfo>>
                /\ h[pSizeId] = k7zIdSize /\ h[pPackEnd] = k7zIdEnd,
         pack_size |-> NumberAt(h, pSizeId + 1),
         pos |-> pPackEnd + 1]

ReadUnpackInfo(h, pUnpack) ==
    LET pCoder     == pUnpack + 5
        coderLen   == IF h[pCoder] = 1 THEN 2 ELSE 4
        pUnpackSz  == pCoder + coderLen
        pUnpackEnd == AfterNumber(h, pUnpackSz + 1)
    IN  [ok |-> /\ SubSeq(h, pUnpack, pUnpack + 4) = <<k7zIdUnpackInfo, k7zIdFolder, 1, 0, 1>>
                /\ h[pUnpackSz] = k7zIdCodersUnpackSize /\ h[pUnpackEnd] = k7zIdEnd,
         coder |-> SubSeq(h, pCoder, pCoder + coderLen - 1),
         unpack_size |-> NumberAt(h, pUnpackSz + 1),
         pos |-> pUnpackEnd + 1]

ReadSubStreamsInfo(h, pSub) ==
    LET n       == NumberAt(h, pSub + 2)
        pAfterN == AfterNumber(h, pSub + 2)
        sizes   == IF h[pAfterN] = k7zIdSize THEN ReadNumbers(h, pAfterN + 1, n - 1)
                   ELSE [values |-> <<>>, pos |-> pAfterN]
        pSubEnd == sizes.pos + 2 + 4 * n
    IN  [ok |-> /\ SubSeq(h, pSub, pSub + 1) = <<k7zIdSubStreamsInfo, k7zIdNumUnpackStream>>
                /\ SubSeq(h, sizes.pos, sizes.pos + 1) = <<k7zIdCRC, 1>>
                /\ SubSeq(h, pSubEnd, pSubEnd + 1) = <<k7zIdEnd, k7zIdEnd>>,
         num_streams |-> n,
         sizes |-> sizes.values,
         crcs |-> FixedItems(h, sizes.pos + 2, n, 4),
         pos |-> pSubEnd + 2]

\* the properties of FilesInfo from the position behind the number of files
ReadFileProps(h, numFiles, pProps) ==
    LET hasEmpty   == h[pProps] = k7zIdEmptyStream
        maskLen    == IF hasEmpty THEN NumberAt(h, pProps + 1) ELSE 0
        pNames     == IF hasEmpty THEN AfterNumber(h, pProps + 1) + maskLen ELSE pProps
        pNameData  == AfterNumber(h, pNames + 1) + 1
        pMTime     == pNameData + NumberAt(h, pNames + 1) - 1
        pMTimeData == AfterNumber(h, pMTime + 1) + 2
        pAttrib    == pMTimeData + 8 * numFiles
        pAttrData  == AfterNumber(h, pAttrib + 1) + 2
    IN  [ok |-> /\ h[pNames] = k7zIdName /\ h[pNameData - 1] = 0
                /\ h[pMTime] = k7zIdMTime /\ SubSeq(h, pMTimeData - 2, pMTimeData - 1) = <<1, 0>>
                /\ h[pAttrib] = k7zIdWinAttrib
                /\ SubSeq(h, pAttrData - 2, pAttrData - 1) = <<1, 0>>
                /\ SubSeq(h, pAttrData + 4 * numFiles, Len(h)) = <<k7zIdEnd, k7zIdEnd>>,
         empty_stream |-> IF hasEmpty THEN SubSeq(h, pNames - maskLen, pNames - 1) ELSE <<>>,
         names |-> SplitNames(SubSeq(h, pNameData, pMTime - 1), <<>>),
         mtimes |-> FixedItems(h, pMTimeData, numFiles, 8),
         attribs |-> FixedItems(h, pAttrData, numFiles, 4)]

ReadFilesInfo(h, pFiles) ==
    [ok |-> h[pFiles] = k7zIdFilesInfo,
     num_files |-> NumberAt(h, pFiles + 1),
     props |-> ReadFileProps(h, NumberAt(h, pFiles + 1), AfterNumber(h, pFiles + 1))]

\* SzReadHeader: the four steps one after the other
SzReadHeader(h) ==
    LET Header(a, b, c, f) ==
            [wellformed |-> a.ok /\ b.ok /\ c.ok /\ f.ok /\ f.props.ok,
             pack_size |-> a.pack_size, coder |-> b.coder, unpack_size |-> b.unpack_size,
             num_streams |-> c.num_streams, sizes |-> c.sizes, crcs |-> c.crcs,
             num_files |-> f.num_files, empty_stream |-> f.props.empty_stream,
             names |-> f.props.names, mtimes |-> f.props.mtimes, attribs |-> f.props.attribs]
        Files(a, b, c) == Header(a, b, c, ReadFilesInfo(h, c.pos))
        SubStreams(a, b) == Files(a, b, ReadSubStreamsInfo(h, b.pos))
        Folder(a) == SubStreams(a, ReadUnpackInfo(h, a.pos))
    IN  Folder(ReadPackInfo(h))

\* the database for a Header Block read as d in the archive file bytes
HeaderEntries(d, bytes) ==
    IF ~d.wellformed THEN [res |-> "SZ_ERROR_ARCHIVE", db |-> <<>>]
    ELSE [res |-> "SZ_OK",
          db |-> ArchiveEntries(d, SubSeq(bytes, k7zStartHeaderSize + 1,
                                          k7zStartHeaderSize + d.pack_size))]

\* SzArEx_Open on the bytes of a file: the signature header is checked, then
\* the Header Block it points to
SzArEx_Open(bytes) ==
    IF Len(bytes) < k7zStartHeaderSize \/ SubSeq(bytes, 1, 6) # k7zSignature
    THEN [res |-> "SZ_ERROR_NO_ARCHIVE", db |-> <<>>]
    ELSE IF bytes[7] # 0 THEN [res |-> "SZ_ERROR_UNSUPPORTED", db |-> <<>>]
    ELSE IF SubSeq(bytes, 9, 12) # CrcCalc(SubSeq(bytes, 13, 32))
    THEN [res |-> "SZ_ERROR_CRC", db |-> <<>>]
    ELSE LET offset == LEValue(SubSeq(bytes, 13, 20))
             size == LEValue(SubSeq(bytes, 21, 28))
             h == SubSeq(bytes, k7zStartHeaderSize + offset + 1,
                         k7zStartHeaderSize + offset + size)
         IN  IF size = 0 THEN [res |-> "SZ_OK", db |-> <<>>]
             ELSE IF k7zStartHeaderSize + offset + size > Len(bytes)
             THEN [res |-> "SZ_ERROR_INPUT_EOF", db |-> <<>>]
             ELSE IF CrcCalc(h) # SubSeq(bytes, 29, 32) THEN [res |-> "SZ_ERROR_CRC", db |-> <<>>]
             ELSE HeaderEntries(SzReadHeader(h), bytes)

(***************************************************************************)
(* sevenzip_extract, sevenzip_extract_streaming, sevenzip_test_archive     *)
(***************************************************************************)
\* the loop of sevenzip_extract over the entries: it leaves at the first entry
\* SzArEx_Extract fails for; out holds the files written so far
RECURSIVE extract_entries(_, _, _)
extract_entries(db, i, outFiles) ==
    IF i > Len(db) THEN [ret |-> SEVENZIP_OK, files |-> outFiles]
    ELSE IF Len(db[i].name) = 0 \/ db[i].is_dir THEN extract_entries(db, i + 1, outFiles)
    ELSE IF db[i].res # "SZ_OK" THEN [ret |-> SEVENZIP_ERROR_EXTRACT, files |-> outFiles]
    ELSE extract_entries(db, i + 1, WithFile(outFiles, db[i].name, db[i].data))

\* exists: InFile_Open finds the archive; opened: what SzArEx_Open gives for it
sevenzip_extract(exists, opened) ==
    IF ~exists THEN [ret |-> SEVENZIP_ERROR_OPEN_FILE, files |-> {}]
    ELSE IF opened.res # "SZ_OK" THEN [ret |-> SEVENZIP_ERROR_INVALID_ARCHIVE, files |-> {}]
    ELSE extract_entries(opened.db, 1, {})

\* the loop of sevenzip_extract_streaming: res is assigned anew for every entry
RECURSIVE extract_streaming_entries(_, _, _, _)
extract_streaming_entries(db, i, res0, outFiles) ==
    IF i > Len(db) THEN [res |-> res0, files |-> outFiles]
    ELSE extract_streaming_entries(db, i + 1, db[i].res,
             IF db[i].res = "SZ_OK" /\ ~db[i].is_dir
             THEN WithFile(outFiles, db[i].name, db[i].data) ELSE outFiles)

sevenzip_extract_streaming(exists, opened) ==
    IF ~exists THEN [ret |-> SEVENZIP_ERROR_OPEN_FILE, files |-> {}]
    ELSE IF opened.res # "SZ_OK" THEN [ret |-> SEVENZIP_ERROR_EXTRACT, files |-> {}]
    ELSE LET r == extract_streaming_entries(opened.db, 1, opened.res, {})
         IN  [ret |-> IF r.res = "SZ_OK" THEN SEVENZIP_OK ELSE SEVENZIP_ERROR_EXTRACT,
              files |-> r.files]

\* result.errors of sevenzip_test_archive: the entries, directories left out, that
\* SzArEx_Extract fails for
test_errors(db) == Cardinality({i \in 1..Len(db) : ~db[i].is_dir /\ db[i].res # "SZ_OK"})

sevenzip_test_archive(exists, opened) ==
    IF ~exists THEN [ret |-> SEVENZIP_ERROR_OPEN_FILE, files |-> {}]
    ELSE IF opened.res # "SZ_OK"
    THEN [ret |-> IF opened.res = "SZ_ERROR_NO_ARCHIVE" THEN SEVENZIP_ERROR_INVALID_ARCHIVE
                  ELSE IF opened.res = "SZ_ERROR_MEM" THEN SEVENZIP_ERROR_MEMORY
                  ELSE SEVENZIP_ERROR_EXTRACT,
          files |-> {}]
    ELSE [ret |-> IF test_errors(opened.db) > 0 THEN SEVENZIP_ERROR_EXTRACT ELSE SEVENZIP_OK,
          files |-> {}]

(***************************************************************************)
(* Archives made and read back, and archives with entries that fail        *)
(***************************************************************************)
MaxEntries == 3

\* entry i of an archive given by its entries: a directory, or a file for which
\* SzArEx_Extract has the result r
DbEntry(i, kind) ==
    [name |-> <<110, ZeroChar + i>>, is_dir |-> (kind = "dir"),
     res |-> IF kind = "dir" THEN "SZ_OK" ELSE kind,
     data |-> IF kind = "SZ_OK" THEN <<i>> ELSE <<>>]

EntryKinds == {"dir", "SZ_OK", "SZ_ERROR_DATA", "SZ_ERROR_CRC"}

GivenDbs ==
    UNION {{[i \in 1..n |-> DbEntry(i, k[i])] : k \in [1..n -> EntryKinds]} : n \in 0..MaxEntries}

Makers == {"sevenzip_compress", "sevenzip_create_7z"}

ExtractArgs ==
    [op : {"none"}, kind : {"db"}, maker : {"none"}, paths : {<<>>},
     level : {SEVENZIP_LEVEL_STORE}, db : GivenDbs, exists : {TRUE}, bytes : {<<>>},
     make_ret : {SEVENZIP_OK}]
    \cup
    [op : {"none"}, kind : {"make"}, maker : Makers, paths : InputLists,
     level : Levels, db : {<<>>}, exists : {FALSE}, bytes : {<<>>}, make_ret : {-1}]

InitExtract ==
    /\ inp = NoInput
    /\ pc = "pure"
    /\ ctx = IdleCtx
    /\ files = <<>>
    /\ fidx = 0
    /\ wlog = IdleLog
    /\ res = NoResult
    /\ VolumesIdle
    /\ arg \in ExtractArgs
    /\ ans = [op |-> "none"]

\* what a call of sevenzip_create_7z with the result z leaves on the disk
FileOfCreate7z(z) ==
    [ret |-> z.ret, written |-> z.ret = SEVENZIP_OK, file |-> Concat(z.volumes)]

\* the archive file is written by sevenzip_compress or by sevenzip_create_7z
MakeArchive ==
    /\ pc = "pure"
    /\ arg.op = "none" /\ arg.kind = "make"
    /\ \E g \in GarbageBytes :
       \E made \in {IF arg.maker = "sevenzip_compress"
                    THEN sevenzip_compress(arg.paths, arg.level)
                    ELSE FileOfCreate7z(sevenzip_create_7z(arg.paths, arg.level, 0, g))} :
          arg' = [arg EXCEPT !.op = "made", !.kind = "bytes", !.exists = made.written,
                             !.bytes = made.file, !.make_ret = made.ret]
    /\ ans' = [op |-> "make"]
    /\ UNCHANGED <<createVars, volumeVars>>

\* an archive is there to be read: given by its entries, or made in this run
ArchiveReady ==
    /\ pc = "pure"
    /\ \/ arg.kind = "db" /\ arg.op = "none"
       \/ arg.kind = "bytes" /\ arg.op = "made"

ArchiveOpened ==
    IF arg.kind = "db" THEN [res |-> "SZ_OK", db |-> arg.db] ELSE SzArEx_Open(arg.bytes)

Extract ==
    /\ ArchiveReady
    /\ arg' = [arg EXCEPT !.op = "sevenzip_extract"]
    /\ ans' = [op |-> "sevenzip_extract", out |-> sevenzip_extract(arg.exists, ArchiveOpened)]
    /\ UNCHANGED <<createVars, volumeVars>>

ExtractStreaming ==
    /\ ArchiveReady
    /\ arg' = [arg EXCEPT !.op = "sevenzip_extract_streaming"]
    /\ ans' = [op |-> "sevenzip_extract_streaming",
               out |-> sevenzip_extract_streaming(arg.exists, ArchiveOpened)]
    /\ UNCHANGED <<createVars, volumeVars>>

TestArchive ==
    /\ ArchiveReady
    /\ arg' = [arg EXCEPT !.op = "sevenzip_test_archive"]
    /\ ans' = [op |-> "sevenzip_test_archive",
               out |-> sevenzip_test_archive(arg.exists, ArchiveOpened)]
    /\ UNCHANGED <<createVars, volumeVars>>

NextExtract == MakeArchive \/ Extract \/ ExtractStreaming \/ TestArchive

SpecExtract == InitExtract /\ [][NextExtract]_vars

\* C13: for every single regular file f, sevenzip_extract run on the file
\* sevenzip_compress wrote for f at level Normal returns SEVENZIP_OK and writes
\* a file named by the last segment of f's path that holds f's bytes.
C13_CompressThenExtractGivesFile ==
    (/\ arg.op = "sevenzip_extract" /\ arg.maker = "sevenzip_compress"
     /\ Len(arg.paths) = 1 /\ S_ISREG(STAT(arg.paths[1]))
     /\ arg.level = SEVENZIP_LEVEL_NORMAL)
        => /\ ans.out.ret = SEVENZIP_OK
           /\ [name |-> BaseName(arg.paths[1]), data |-> STAT(arg.paths[1]).data]
                  \in ans.out.files

\* an entry of the archive read fails to extract
SomeEntryFails ==
    /\ arg.exists
    /\ ArchiveOpened.res = "SZ_OK"
    /\ \E i \in 1..Len(ArchiveOpened.db) : ArchiveOpened.db[i].res # "SZ_OK"

\* C14: sevenzip_extract, sevenzip_extract_streaming and sevenzip_test_archive
\* return an error code whenever SzArEx_Extract fails for an entry of the
\* archive, wherever that entry stands and whatever happens with the entries
\* after it.
C14_FailingEntryGivesError ==
    (/\ arg.op \in {"sevenzip_extract", "sevenzip_extract_streaming", "sevenzip_test_archive"}
     /\ SomeEntryFails)
        => ans.out.ret # SEVENZIP_OK

(***************************************************************************)
(* The create operations on an output whose writes fail.  fail names the   *)
(* writes that fail: "pack" the packed data, "header" the header block,    *)
(* "patch" the writes that fill in the signature header at the end, "none" *)
(* no write.  A failing fwrite puts nothing into the file and returns 0.   *)
(***************************************************************************)
FailPoints == {"none", "pack", "header", "patch"}

\* fwrite(bytes) at the end of f
fwrite_io(f, bytes, fails) == IF fails THEN f ELSE f \o bytes

\* the writes of write_7z_archive once compress_all_files has given c and the
\* header block is built: packed data, header block, signature header
c7_WriteOut_io(c, header, fail) ==
    LET f1 == IF Len(c.output) > 0
              THEN fwrite_io(SignatureHeaderPlaceholder, c.output, fail = "pack")
              ELSE SignatureHeaderPlaceholder
        f2 == fwrite_io(f1, header, fail = "header")
    IN  [ret |-> SEVENZIP_OK,
         volumes |-> <<IF fail = "patch" THEN f2
                       ELSE c7_UpdateStartHeader(f2, Len(f1) - Len(SignatureHeaderPlaceholder),
                                                 Len(header), CrcCalc(header))>>,
         attempted |-> {"header", "patch"} \cup (IF Len(c.output) > 0 THEN {"pack"} ELSE {})]

c7_WriteCompressed_io(c, fail) == c7_WriteOut_io(c, c7_Header(c.builder, Len(c.output)), fail)

\* write_7z_archive: the value of no fwrite is looked at
\* attempted: the kinds of write the call made with at least one byte
write_7z_archive_io(builder0, fail) == c7_WriteCompressed_io(compress_all_files(builder0), fail)

c7_CreateScanned_io(scan, level, dict_size, garbage, fail) ==
    IF scan.err # SEVENZIP_OK THEN [ret |-> scan.err, volumes |-> <<>>, attempted |-> {}]
    ELSE write_7z_archive_io(
             [files |-> scan.files, use_copy_codec |-> (level = SEVENZIP_LEVEL_STORE),
              lzma2_prop_byte |-> garbage,
              dictSize |-> IF dict_size > 0 THEN dict_size ELSE create_7z_dictSize(level)],
             fail)

sevenzip_create_7z_io(paths, level, dict_size, garbage, fail) ==
    c7_CreateScanned_io(create_7z_add_inputs(<<>>, paths, 1), level, dict_size, garbage, fail)

\* the writes of write_7z_archive of archive_create_true_streaming.c once the
\* header block is built
ts_WriteOut_io(temp, header, header_crc, fail) ==
    LET data_size == Len(temp)
        f0 == k7zSignature \o <<0, 4>> \o <<0, 0, 0, 0>> \o LE64(data_size)
                 \o LE64(0) \o <<0, 0, 0, 0>>
        f1 == IF data_size > 0 THEN fwrite_io(f0, temp, fail = "pack") ELSE f0
        f2 == fwrite_io(f1, header, fail = "header")
    IN  [ret |-> SEVENZIP_OK,
         volumes |-> <<IF fail = "patch" THEN f2
                       ELSE FWriteAt(FWriteAt(f2, HeaderSizePos, LE64(Len(header)) \o header_crc),
                                     StartHeaderCrcPos,
                                     CrcCalc(StartHeaderBuf(data_size, Len(header), header_crc)))>>,
         attempted |-> {"header", "patch"} \cup (IF data_size > 0 THEN {"pack"} ELSE {})]

ts_WriteHeader_io(temp, header, fail) == ts_WriteOut_io(temp, header, CrcCalc(header), fail)

\* write_7z_archive of archive_create_true_streaming.c: the temporary file is
\* copied into the archive, the header is written and the signature header is
\* patched; the value of no fwrite is looked at
ts_write_7z_archive_io(list, temp, fail) ==
    ts_WriteHeader_io(temp, ts_Header(list, Len(temp)), fail)

ts_WriteCompressed_io(c, fail) == ts_write_7z_archive_io(c.files, c.temp, fail)

ts_CreateScanned_io(scan, fail) ==
    IF scan.err # SEVENZIP_OK THEN [ret |-> scan.err, volumes |-> <<>>, attempted |-> {}]
    ELSE ts_WriteCompressed_io(compress_files_streaming(scan.files), fail)

sevenzip_create_7z_true_streaming_io(paths, fail) ==
    ts_CreateScanned_io(ts_scan_inputs(<<>>, paths, 1), fail)

\* write_across_volumes: returns 0 when fwrite writes less than asked
write_across_volumes_io(c, data, fails) ==
    IF Len(data) = 0 THEN [ok |-> TRUE, ctx |-> c]
    ELSE IF fails
    THEN [ok |-> FALSE,
          ctx |-> IF Len(c.volumes) = 0 \/ c.current_volume_size >= c.max_volume_size
                  THEN open_new_volume(c) ELSE c]
    ELSE [ok |-> TRUE, ctx |-> write_across_volumes(c, data)]

\* store_file_uncompressed: a failed write_across_volumes gives SZ_ERROR_WRITE
store_file_uncompressed_io(c, file_path, file_size, fails) ==
    LET got == FRead(file_path, file_size)
        w == write_across_volumes_io(c, got, fails)
    IN  [res |-> IF w.ok THEN "SZ_OK" ELSE "SZ_ERROR_WRITE", ctx |-> w.ctx,
         packed_size |-> file_size, wrote |-> Len(got) > 0]

\* compress_file_streaming with files below 1 MiB: the encoder's output stays
\* in the buffer of the VolumeOutStream until the VolumeOutStream_Flush after
\* Lzma2Enc_Encode2, and the value of that flush is dropped; a flush that fails
\* leaves packed_size as it was
compress_file_streaming_io(c, file_path, fails) ==
    LET mapped == STAT(file_path).data
        encoded == Lzma2Enc_Encode2(mapped)
        w == write_across_volumes_io(c, encoded, fails)
    IN  [res |-> "SZ_OK", ctx |-> w.ctx,
         packed_size |-> IF w.ok THEN Len(encoded) ELSE 0, wrote |-> Len(encoded) > 0]

\* the loop over the files of sevenzip_create_multivolume_7z_complete
RECURSIVE mv_process_files_io(_, _, _, _, _, _)
mv_process_files_io(c, list, i, level, fail, wrote) ==
    IF i > Len(list) THEN [res |-> "SZ_OK", ctx |-> c, wrote |-> wrote]
    ELSE LET file == list[i]
             r == IF level = SEVENZIP_LEVEL_STORE
                  THEN store_file_uncompressed_io(c, file.full_path, file.size, fail = "pack")
                  ELSE compress_file_streaming_io(c, file.full_path, fail = "pack")
         IN  IF r.res # "SZ_OK" THEN [res |-> r.res, ctx |-> r.ctx, wrote |-> TRUE]
             ELSE mv_process_files_io([r.ctx EXCEPT !.total_packed_size = @ + r.packed_size],
                                      list, i + 1, level, fail, wrote \/ r.wrote)

\* the end of sevenzip_create_multivolume_7z_complete behind the write of the
\* header block: h is what that write gave
mv_Finish_io(p, packs, header, header_crc, h, fail) ==
    IF p.res # "SZ_OK"
    THEN [ret |-> SEVENZIP_ERROR_COMPRESS, volumes |-> p.ctx.volumes, attempted |-> packs]
    ELSE IF ~h.ok
    THEN [ret |-> SEVENZIP_ERROR_COMPRESS, volumes |-> h.ctx.volumes,
          attempted |-> packs \cup {"header"}]
    ELSE [ret |-> SEVENZIP_OK,
          volumes |-> IF fail = "patch" THEN h.ctx.volumes
                      ELSE [h.ctx.volumes EXCEPT ![1] =
                               mv_UpdateStartHeader(@, p.ctx.total_packed_size, Len(header),
                                                    header_crc)],
          attempted |-> packs \cup {"header", "patch"}]

mv_WriteHeader_io(p, header, fail) ==
    mv_Finish_io(p, IF p.wrote THEN {"pack"} ELSE {}, header, CrcCalc(header),
                 write_across_volumes_io(p.ctx, header, fail = "header"), fail)

mv_WriteFiles_io(list, p, fail) ==
    mv_WriteHeader_io(p, build_7z_header(list, p.ctx.total_packed_size), fail)

\* the volume opened and the signature header placeholder written into it
mv_FirstVolume(c1) ==
    [c1 EXCEPT !.volumes[1] = @ \o SignatureHeaderPlaceholder,
               !.current_volume_size = @ + Len(SignatureHeaderPlaceholder),
               !.bytes_written = 0, !.total_packed_size = 0]

mv_CreateGathered_io(list, level, split_size, fail) ==
    IF split_size = 0 \/ Len(list) = 0
    THEN [ret |-> SEVENZIP_ERROR_INVALID_PARAM, volumes |-> <<>>, attempted |-> {}]
    ELSE mv_WriteFiles_io(
             list,
             mv_process_files_io(
                 mv_FirstVolume(open_new_volume(
                     [IdleCtx EXCEPT !.max_volume_size = split_size,
                                     !.total_size = SizeSum(list)])),
                 list, 1, level, fail, FALSE),
             fail)

sevenzip_create_multivolume_7z_complete_io(paths, level, split_size, fail) ==
    mv_CreateGathered_io(mv_gather(<<>>, paths, 1), level, split_size, fail)

\* the split size of the multivolume calls
FailSplitSize == 40

\* lists of distinct paths among two files with data, the empty file and the
\* directory
FailLists == {l \in ListsUpTo({PathA, PathB, PathE, PathD}, MaxInputs) :
                 \A i, j \in 1..Len(l) : i # j => l[i] # l[j]}

WriteFailArgs ==
    [op : {"none"}, paths : FailLists, level : Levels, fail : FailPoints]

InitWriteFail ==
    /\ inp = NoInput
    /\ pc = "pure"
    /\ ctx = IdleCtx
    /\ files = <<>>
    /\ fidx = 0
    /\ wlog = IdleLog
    /\ res = NoResult
    /\ VolumesIdle
    /\ arg \in WriteFailArgs
    /\ ans = [op |-> "none"]

\* a whole call of sevenzip_create_7z
Create7zIo ==
    /\ pc = "pure"
    /\ arg.op = "none"
    /\ arg' = [arg EXCEPT !.op = "sevenzip_create_7z"]
    /\ \E g \in GarbageBytes :
          ans' = [op |-> "sevenzip_create_7z",
                  out |-> sevenzip_create_7z_io(arg.paths, arg.level, 0, g, arg.fail)]
    /\ UNCHANGED <<createVars, volumeVars>>

\* a whole call of sevenzip_create_7z_true_streaming
TrueStreamingIo ==
    /\ pc = "pure"
    /\ arg.op = "none"
    /\ arg' = [arg EXCEPT !.op = "sevenzip_create_7z_true_streaming"]
    /\ ans' = [op |-> "sevenzip_create_7z_true_streaming",
               out |-> sevenzip_create_7z_true_streaming_io(arg.paths, arg.fail)]
    /\ UNCHANGED <<createVars, volumeVars>>

\* a whole call of sevenzip_create_multivolume_7z_complete
MultivolumeIo ==
    /\ pc = "pure"
    /\ arg.op = "none"
    /\ arg' = [arg EXCEPT !.op = "sevenzip_create_multivolume_7z_complete"]
    /\ ans' = [op |-> "sevenzip_create_multivolume_7z_complete",
               out |-> sevenzip_create_multivolume_7z_complete_io(
                           arg.paths, arg.level, FailSplitSize, arg.fail)]
    /\ UNCHANGED <<createVars, volumeVars>>

NextWriteFail == Create7zIo \/ TrueStreamingIo \/ MultivolumeIo

SpecWriteFail == InitWriteFail /\ [][NextWriteFail]_vars

\* C15: a create operation in which a write of the packed data, of the header
\* block or of the signature header patch fails returns an error code, never
\* SEVENZIP_OK.
C15_FailedWriteGivesError ==
    (arg.op # "none" /\ arg.fail \in ans.out.attempted) => ans.out.ret # SEVENZIP_OK

(***************************************************************************)
(* Paths that cannot be stat'ed                                            *)
(***************************************************************************)
\* stat fails for input path i of the call
StatFails(i) == STAT(inp.paths[i]).kind = "missing"

\* C16: a create operation that meets a path it cannot stat returns
\* SEVENZIP_ERROR_OPEN_FILE: no call whose input list holds such a path returns
\* SEVENZIP_OK, and a call whose first input path is such a path (a path every
\* call visits) returns SEVENZIP_ERROR_OPEN_FILE.
C16_StatFailureGivesOpenFile ==
    pc = "done" =>
        /\ (\E i \in 1..Len(inp.paths) : StatFails(i)) => res.ret # SEVENZIP_OK
        /\ (Len(inp.paths) > 0 /\ StatFails(1)) => res.ret = SEVENZIP_ERROR_OPEN_FILE

(***************************************************************************)
(* The entries a scan is to give                                           *)
(***************************************************************************)
\* the entries for the node at path taken under the name given: a regular file
\* gives one entry, a directory its own entry and then those of its children
\* under name/child, anything else none
RECURSIVE NamedEntries(_, _)
RECURSIVE NamedChildren(_, _, _)
NamedEntries(path, name) ==
    LET st == STAT(path)
    IN  IF S_ISREG(st) THEN <<[name |-> name, is_dir |-> FALSE]>>
        ELSE IF S_ISDIR(st)
        THEN <<[name |-> name, is_dir |-> TRUE]>> \o NamedChildren(path, name, 1)
        ELSE <<>>

NamedChildren(path, name, k) ==
    IF k > Len(STAT(path).children) THEN <<>>
    ELSE NamedEntries(JoinPath(path, STAT(path).children[k]),
                      JoinPath(name, STAT(path).children[k]))
             \o NamedChildren(path, name, k + 1)

\* the entries for the input paths of the call
InputEntries == Concat([i \in 1..Len(inp.paths) |-> NamedEntries(inp.paths[i], BaseName(inp.paths[i]))])

\* name and kind of the entries the call scanned
ScannedEntries == [i \in 1..Len(res.entries) |->
                      [name |-> res.entries[i].name, is_dir |-> res.entries[i].is_dir]]

\* C17: the scanner of a create operation gives, for an input directory D, an
\* entry for D and an entry for every descendant named by D's last segment
\* joined by '/' with the path relative to D, for a regular-file input one entry
\* named by the last segment, and nothing for an input of another kind.
C17_ScanEmitsDirectoryAndDescendants ==
    (pc = "done" /\ res.ret = SEVENZIP_OK) =>
        /\ Len(ScannedEntries) = Len(InputEntries)
        /\ Range(ScannedEntries) = Range(InputEntries)

(***************************************************************************)
(* SubStreamsInfo of the header written                                    *)
(***************************************************************************)
\* the header a create call wrote, read back in the layout of its writer
HeaderRead ==
    IF res.api = "true_streaming"
    THEN [ok |-> ts_DecodeHeader(res.header).streams_wellformed,
          declared |-> ts_DecodeHeader(res.header).has_substreams,
          num_streams |-> ts_DecodeHeader(res.header).num_streams,
          sizes |-> ts_DecodeHeader(res.header).sizes,
          crcs |-> ts_DecodeHeader(res.header).crcs,
          empty_stream |-> ts_DecodeHeader(res.header).empty_stream]
    ELSE [ok |-> DecodeHeader(res.header).wellformed,
          declared |-> TRUE,
          num_streams |-> DecodeHeader(res.header).num_streams,
          sizes |-> DecodeHeader(res.header).sizes,
          crcs |-> DecodeHeader(res.header).crcs,
          empty_stream |-> DecodeHeader(res.header).empty_stream]

\* the entries the writer of the call gives a stream of their own: the files
\* with bytes in sevenzip_create_7z_true_streaming, every file in the others
StreamEntries ==
    SelectSeq(res.entries,
              LAMBDA f : ~f.is_dir /\ (res.api = "true_streaming" => f.size > 0))

\* C18: when the SubStreamsInfo of a header written by a create operation
\* declares N > 1 unpack streams, it carries N - 1 sizes, those of the first
\* N - 1 entries with a stream in file-list order, directly followed by the CRC
\* property with N CRCs.
C18_SubStreamsCarryAllSizesButLast ==
    (Created /\ HeaderRead.declared /\ HeaderRead.num_streams > 1) =>
        /\ HeaderRead.ok
        /\ HeaderRead.sizes = [i \in 1..(HeaderRead.num_streams - 1) |-> StreamEntries[i].size]
        /\ Len(HeaderRead.crcs) = HeaderRead.num_streams

(***************************************************************************)
(* EmptyStream of the header written                                       *)
(***************************************************************************)
\* the entries of the call (counted from 1) whose EmptyStream bit is clear in
\* the header
ClearBitEntries ==
    {i \in 1..Len(res.entries) : ~EmptyStreamBit(HeaderRead.empty_stream, i - 1)}

\* C19: in the header written by a create operation the EmptyStream bit of an
\* entry is set exactly when the entry is a directory or a zero-byte file, and
\* the entries whose bit is clear are as many as the unpack streams declared.
C19_EmptyStreamMarksDirsAndEmptyFiles ==
    Created =>
        /\ \A i \in 1..Len(res.entries) :
              EmptyStreamBit(HeaderRead.empty_stream, i - 1)
                  <=> (res.entries[i].is_dir \/ res.entries[i].size = 0)
        /\ HeaderRead.declared => Cardinality(ClearBitEntries) = HeaderRead.num_streams

(***************************************************************************)
(* The number encoders applied to 64-bit values                            *)
(***************************************************************************)
\* 2^b as a uint64_t, b in 0..63
PowerOfTwo(b) == [i \in 1..8 |-> IF i = (b \div 8) + 1 THEN 2^(b % 8) ELSE 0]

\* 2^b - 1 as a uint64_t, b in 0..64
PowerOfTwoLess1(b) ==
    [i \in 1..8 |-> IF i <= b \div 8 THEN 255
                    ELSE IF i = (b \div 8) + 1 THEN 2^(b % 8) - 1 ELSE 0]

\* a value of n significant bytes with mixed bits
MixedValue(n, k) == [i \in 1..8 |-> IF i <= n THEN ((i * 37 + k) % 255) + 1 ELSE 0]

\* the values around every power of two, where the encoders change their
\* form, and values of every length between them
NumberValues ==
    {PowerOfTwo(b) : b \in 0..63} \cup {PowerOfTwoLess1(b) : b \in 0..64}
        \cup {MixedValue(n, k) : n \in 1..8, k \in {1, 100, 200}}

\* bytes that stand behind an encoded number in a header
BytesBehind == <<170, 255, 1, 0, 128, 33, 7, 64, 9>>

NumberArgs == [op : {"none"}, v : NumberValues]

InitNumber ==
    /\ inp = NoInput
    /\ pc = "pure"
    /\ ctx = IdleCtx
    /\ files = <<>>
    /\ fidx = 0
    /\ wlog = IdleLog
    /\ res = NoResult
    /\ VolumesIdle
    /\ arg \in NumberArgs
    /\ ans = [op |-> "none"]

\* WriteNumber (archive_create.c, archive_create_multivolume.c) writes the
\* value into a buffer that is read back from its start
CallWriteNumber ==
    /\ pc = "pure"
    /\ arg.op = "none"
    /\ arg' = [arg EXCEPT !.op = "WriteNumber"]
    /\ ans' = [op |-> "WriteNumber", bytes |-> WriteNumber(arg.v),
               read |-> ReadNumber(WriteNumber(arg.v) \o BytesBehind, 1)]
    /\ UNCHANGED <<createVars, volumeVars>>

\* write_number (archive_create_true_streaming.c)
CallWrite_number ==
    /\ pc = "pure"
    /\ arg.op = "none"
    /\ arg' = [arg EXCEPT !.op = "write_number"]
    /\ ans' = [op |-> "write_number", bytes |-> write_number(arg.v),
               read |-> ReadNumber(write_number(arg.v) \o BytesBehind, 1)]
    /\ UNCHANGED <<createVars, volumeVars>>

NextNumber == CallWriteNumber \/ CallWrite_number

SpecNumber == InitNumber /\ [][NextNumber]_vars

\* C20: for every 64-bit value v, reading by the 7z rule the bytes WriteNumber
\* or write_number wrote for v gives v and takes exactly the bytes written.
C20_ReadOfWrittenNumberIsValue ==
    arg.op \in {"WriteNumber", "write_number"} =>
        /\ ans.read.value = arg.v
        /\ ans.read.used = Len(ans.bytes)

\* a value of three bytes was written by WriteNumber and read back, with other
\* bytes standing behind it
C20_Witness ==
    /\ arg.op = "WriteNumber"
    /\ arg.v = MixedValue(3, 1)
    /\ Len(ans.bytes) = 4
    /\ ans.read = [value |-> arg.v, used |-> 4]

\* the least k in 0..8 with v < 2^(7 * (k + 1)), 8 when there is none
ShortestExtraBytes(v) ==
    IF \E k \in 0..7 : BelowPow2(v, 7 * (k + 1))
    THEN CHOOSE k \in 0..7 : /\ BelowPow2(v, 7 * (k + 1))
                             /\ \A j \in 0..(k - 1) : ~BelowPow2(v, 7 * (j + 1))
    ELSE 8

\* C21: for every 64-bit value v, WriteNumber and write_number write 1 + k
\* bytes, k the least number in 0..8 with v < 2^(7 * (k + 1)).
C21_EncodersWriteShortestForm ==
    arg.op \in {"WriteNumber", "write_number"} =>
        Len(ans.bytes) = 1 + ShortestExtraBytes(arg.v)

(***************************************************************************)
(* The public operations called with arguments that may be NULL.  A        *)
(* pointer argument is NULL or points at a value.  Each call gives its     *)
(* return code and whether it opened, created or changed a file.           *)
(***************************************************************************)
NULL == [null |-> TRUE]

Ptr(x) == [null |-> FALSE, at |-> x]

ArchiveName == <<120, 46, 55, 122>>     \* "x.7z"
OutDirName == <<111>>                   \* "o"

\* the file a reading call finds at the archive path
ReaderArchive == sevenzip_compress(<<PathA>>, SEVENZIP_LEVEL_NORMAL).file

OptionSets == {NULL, Ptr([split_size |-> 0]), Ptr([split_size |-> FailSplitSize])}

CallArgs ==
    [op : {"none"},
     archive_path : {NULL, Ptr(ArchiveName)},
     input_paths : {NULL, Ptr(<<>>), Ptr(<<PathA>>), Ptr(<<PathA, PathB>>)},
     output_dir : {NULL, Ptr(OutDirName)},
     list : {NULL, Ptr("list")},
     options : OptionSets,
     level : Levels]

InvalidParam == [ret |-> SEVENZIP_ERROR_INVALID_PARAM, touched |-> FALSE]

\* a writer's outcome: the output exists when the writer wrote it
OfWritten(r) == [ret |-> r.ret, touched |-> r.written]
OfVolumes(r) == [ret |-> r.ret, touched |-> r.volumes # <<>>]
\* a reader's outcome: InFile_Open or open_split_volumes has been called
OfReader(r) == [ret |-> r.ret, touched |-> TRUE]

sevenzip_compress_call(a) ==
    IF a.archive_path = NULL \/ a.input_paths = NULL THEN InvalidParam
    ELSE OfWritten(sevenzip_compress(a.input_paths.at, a.level))

sevenzip_create_7z_call(a, dict_size, garbage) ==
    IF a.archive_path = NULL \/ a.input_paths = NULL THEN InvalidParam
    ELSE OfVolumes(sevenzip_create_7z_io(a.input_paths.at, a.level, dict_size, garbage, "none"))

sevenzip_create_multivolume_7z_complete_call(a) ==
    IF a.archive_path = NULL \/ a.input_paths = NULL \/ a.options = NULL THEN InvalidParam
    ELSE IF a.options.at.split_size = 0 THEN InvalidParam
    ELSE OfVolumes(sevenzip_create_multivolume_7z_complete_io(
                       a.input_paths.at, a.level, a.options.at.split_size, "none"))

\* the part of sevenzip_create_7z_streaming behind the defaults for options
create_7z_streaming_split(a, split_size, g, garbage) ==
    IF split_size = 0 THEN sevenzip_create_7z_call(a, DEFAULT_DICT_SIZE, garbage)
    ELSE IF ~g.ok \/ Len(g.sizes) = 0 THEN InvalidParam
    ELSE IF SumSeq(g.sizes) <= split_size
    THEN sevenzip_create_7z_call(a, DEFAULT_DICT_SIZE, garbage)
    ELSE sevenzip_create_multivolume_7z_complete_call(a)

sevenzip_create_7z_streaming_call(a, garbage) ==
    IF a.archive_path = NULL \/ a.input_paths = NULL THEN InvalidParam
    ELSE create_7z_streaming_split(
             a, IF a.options = NULL THEN 0 ELSE a.options.at.split_size,
             gather_inputs(<<>>, a.input_paths.at, 1), garbage)

sevenzip_create_7z_true_streaming_call(a) ==
    IF a.archive_path = NULL \/ a.input_paths = NULL THEN InvalidParam
    ELSE OfVolumes(sevenzip_create_7z_true_streaming_io(a.input_paths.at, "none"))

sevenzip_extract_call(a) ==
    IF a.archive_path = NULL \/ a.output_dir = NULL THEN InvalidParam
    ELSE OfReader(sevenzip_extract(TRUE, SzArEx_Open(ReaderArchive)))

sevenzip_extract_streaming_call(a) ==
    IF a.archive_path = NULL \/ a.output_dir = NULL THEN InvalidParam
    ELSE OfReader(sevenzip_extract_streaming(TRUE, SzArEx_Open(ReaderArchive)))

\* sevenzip_list: the archive is opened as sevenzip_extract opens it
sevenzip_list(exists, opened) ==
    IF ~exists THEN [ret |-> SEVENZIP_ERROR_OPEN_FILE]
    ELSE IF opened.res # "SZ_OK" THEN [ret |-> SEVENZIP_ERROR_INVALID_ARCHIVE]
    ELSE [ret |-> SEVENZIP_OK]

\* a variant of sevenzip_list that looks at the archive path only
sevenzip_list_call_PathOnly(a) ==
    IF a.archive_path = NULL THEN InvalidParam
    ELSE OfReader(sevenzip_list(TRUE, SzArEx_Open(ReaderArchive)))

sevenzip_list_call(a) ==
    IF a.archive_path = NULL \/ a.list = NULL THEN InvalidParam
    ELSE OfReader(sevenzip_list(TRUE, SzArEx_Open(ReaderArchive)))

sevenzip_test_archive_call(a) ==
    IF a.archive_path = NULL THEN InvalidParam
    ELSE OfReader(sevenzip_test_archive(TRUE, SzArEx_Open(ReaderArchive)))

InitCalls ==
    /\ inp = NoInput
    /\ pc = "pure"
    /\ ctx = IdleCtx
    /\ files = <<>>
    /\ fidx = 0
    /\ wlog = IdleLog
    /\ res = NoResult
    /\ VolumesIdle
    /\ arg \in CallArgs
    /\ ans = [op |-> "none"]

\* the call op has been made and gave out
Called(op, out) ==
    /\ arg' = [arg EXCEPT !.op = op]
    /\ ans' = [op |-> op, out |-> out]
    /\ UNCHANGED <<createVars, volumeVars>>

CallCompress ==
    /\ pc = "pure" /\ arg.op = "none"
    /\ Called("sevenzip_compress", sevenzip_compress_call(arg))

CallCreate7z ==
    /\ pc = "pure" /\ arg.op = "none"
    /\ \E g \in GarbageBytes : Called("sevenzip_create_7z", sevenzip_create_7z_call(arg, 0, g))

CallCreate7zStreaming ==
    /\ pc = "pure" /\ arg.op = "none"
    /\ \E g \in GarbageBytes :
          Called("sevenzip_create_7z_streaming", sevenzip_create_7z_streaming_call(arg, g))

CallCreate7zTrueStreaming ==
    /\ pc = "pure" /\ arg.op = "none"
    /\ Called("sevenzip_create_7z_true_streaming", sevenzip_create_7z_true_streaming_call(arg))

CallCreateMultivolume ==
    /\ pc = "pure" /\ arg.op = "none"
    /\ Called("sevenzip_create_multivolume_7z_complete",
              sevenzip_create_multivolume_7z_complete_call(arg))

CallExtract ==
    /\ pc = "pure" /\ arg.op = "none"
    /\ Called("sevenzip_extract", sevenzip_extract_call(arg))

CallExtractStreaming ==
    /\ pc = "pure" /\ arg.op = "none"
    /\ Called("sevenzip_extract_streaming", sevenzip_extract_streaming_call(arg))

CallList ==
    /\ pc = "pure" /\ arg.op = "none"
    /\ Called("sevenzip_list", sevenzip_list_call(arg))

CallTestArchive ==
    /\ pc = "pure" /\ arg.op = "none"
    /\ Called("sevenzip_test_archive", sevenzip_test_archive_call(arg))

NextCalls ==
    \/ CallCompress \/ CallCreate7z \/ CallCreate7zStreaming \/ CallCreate7zTrueStreaming
    \/ CallCreateMultivolume \/ CallExtract \/ CallExtractStreaming \/ CallList
    \/ CallTestArchive

SpecCalls == InitCalls /\ [][NextCalls]_vars

\* the required arguments of each operation
CreateOps ==
    {"sevenzip_compress", "sevenzip_create_7z", "sevenzip_create_7z_streaming",
     "sevenzip_create_7z_true_streaming", "sevenzip_create_multivolume_7z_complete"}

RequiredIsNull ==
    \/ arg.archive_path = NULL
    \/ arg.op \in CreateOps /\ arg.input_paths = NULL
    \/ arg.op \in {"sevenzip_extract", "sevenzip_extract_streaming"} /\ arg.output_dir = NULL
    \/ arg.op = "sevenzip_list" /\ arg.list = NULL

\* C22: every public operation called with a NULL required argument (archive
\* path, input-path list, output directory or result pointer) returns
\* SEVENZIP_ERROR_INVALID_PARAM and has opened, created or changed no file.
C22_NullArgumentGivesInvalidParam ==
    (arg.op # "none" /\ RequiredIsNull) =>
        /\ ans.out.ret = SEVENZIP_ERROR_INVALID_PARAM
        /\ ~ans.out.touched

\* sevenzip_list was called with an archive path and no result pointer
C22_Witness ==
    /\ arg.op = "sevenzip_list"
    /\ arg.archive_path # NULL /\ arg.list = NULL
    /\ ans.out = InvalidParam

(***************************************************************************)
(* The last-error context (error_reporting.c).  pthread_getspecific gives  *)
(* each thread the value it stored under the key itself: tls[t] is thread  *)
(* t's SevenZipErrorInfo, not yet allocated before the thread's first use. *)
(* arg holds tls, for each thread the context it last wrote itself (own)   *)
(* and the number of calls made so far.                                    *)
(***************************************************************************)
Threads == {"t1", "t2"}

\* the calls of one run
MaxCalls == 3

\* sizeof(message), sizeof(file_context), sizeof(suggestion)
MessageSize == 512
FileContextSize == 256
SuggestionSize == 256

NotAllocated == [alloc |-> FALSE]

\* the context get_error_info allocates and the one sevenzip_clear_last_error
\* leaves: zeroed, code SEVENZIP_OK, position -1
ClearedInfo ==
    [alloc |-> TRUE, code |-> SEVENZIP_OK, position |-> -1, message |-> <<>>,
     file_context |-> <<>>, suggestion |-> <<>>]

\* strncpy(dst, src, size - 1) followed by dst[size - 1] = 0; an empty text for NULL
CopyText(src, size) == IF src = NULL THEN <<>> ELSE Take(src.at, size - 1)

\* a variant in which all threads share the context of thread "t1"
get_error_info_Shared(tls, t) ==
    IF tls["t1"].alloc THEN [u \in Threads |-> tls["t1"]]
    ELSE [u \in Threads |-> ClearedInfo]

\* get_error_info: the contexts after the call; thread t's own is allocated
get_error_info(tls, t) ==
    IF tls[t].alloc THEN tls ELSE [tls EXCEPT ![t] = ClearedInfo]

SetInfo(tls, t, code, message, file_context, position, suggestion) ==
    [tls EXCEPT ![t] = [alloc |-> TRUE, code |-> code, position |-> position,
                        message |-> CopyText(message, MessageSize),
                        file_context |-> CopyText(file_context, FileContextSize),
                        suggestion |-> CopyText(suggestion, SuggestionSize)]]

sevenzip_set_error_internal(tls, t, code, message, file_context, position, suggestion) ==
    SetInfo(get_error_info(tls, t), t, code, message, file_context, position, suggestion)

ClearInfo(tls, t) == [tls EXCEPT ![t] = ClearedInfo]

sevenzip_clear_last_error(tls, t) == ClearInfo(get_error_info(tls, t), t)

\* memcpy(error_info, info, sizeof(SevenZipErrorInfo))
CopyInfo(tls, t) == [ret |-> SEVENZIP_OK, tls |-> tls, out |-> tls[t]]

sevenzip_get_last_error(tls, t, error_info) ==
    IF error_info = NULL
    THEN [ret |-> SEVENZIP_ERROR_INVALID_PARAM, tls |-> tls, out |-> NotAllocated]
    ELSE CopyInfo(get_error_info(tls, t), t)

\* what sevenzip_get_last_error would hand to thread t in this state
LastError(t) == sevenzip_get_last_error(arg.tls, t, Ptr("error_info")).out

ErrorTexts == {NULL, Ptr(<<77>>)}

InitErrors ==
    /\ inp = NoInput
    /\ pc = "pure"
    /\ ctx = IdleCtx
    /\ files = <<>>
    /\ fidx = 0
    /\ wlog = IdleLog
    /\ res = NoResult
    /\ VolumesIdle
    /\ arg = [op |-> "none", tls |-> [t \in Threads |-> NotAllocated],
              own |-> [t \in Threads |-> NotAllocated], n |-> 0]
    /\ ans = [op |-> "none"]

\* thread t made the call op; tls holds the contexts after it
ErrorStep(op, t, tls, own, ret, out) ==
    /\ arg' = [op |-> op, tls |-> tls, own |-> own, n |-> arg.n + 1]
    /\ ans' = [op |-> op, thread |-> t, ret |-> ret, out |-> out]
    /\ UNCHANGED <<createVars, volumeVars>>

\* a module reports an error of thread t
SetError ==
    /\ pc = "pure" /\ arg.n < MaxCalls
    /\ \E t \in Threads, position \in {-1, 7}, message \in ErrorTexts,
          code \in {SEVENZIP_ERROR_OPEN_FILE, SEVENZIP_ERROR_EXTRACT} :
          \E tls \in {sevenzip_set_error_internal(arg.tls, t, code, message, NULL,
                                                  position, NULL)} :
             ErrorStep("sevenzip_set_error_internal", t, tls,
                       [arg.own EXCEPT ![t] = tls[t]], SEVENZIP_OK, NotAllocated)

ClearLastError ==
    /\ pc = "pure" /\ arg.n < MaxCalls
    /\ \E t \in Threads :
          \E tls \in {sevenzip_clear_last_error(arg.tls, t)} :
             ErrorStep("sevenzip_clear_last_error", t, tls,
                       [arg.own EXCEPT ![t] = tls[t]], SEVENZIP_OK, NotAllocated)

GetLastError ==
    /\ pc = "pure" /\ arg.n < MaxCalls
    /\ \E t \in Threads, error_info \in {NULL, Ptr("error_info")} :
          \E r \in {sevenzip_get_last_error(arg.tls, t, error_info)} :
             ErrorStep("sevenzip_get_last_error", t, r.tls, arg.own, r.ret, r.out)

\* sevenzip_extract by thread t: no statement of it reads or writes the context
ExtractByThread ==
    /\ pc = "pure" /\ arg.n < MaxCalls
    /\ \E t \in Threads, exists \in BOOLEAN :
          ErrorStep("sevenzip_extract", t, arg.tls, arg.own,
                    sevenzip_extract(exists, [res |-> "SZ_OK", db |-> <<>>]).ret, NotAllocated)

\* sevenzip_compress by thread t: no statement of it reads or writes the context
CompressByThread ==
    /\ pc = "pure" /\ arg.n < MaxCalls
    /\ \E t \in Threads, paths \in {<<PathA>>, <<PathM>>} :
          ErrorStep("sevenzip_compress", t, arg.tls, arg.own,
                    sevenzip_compress(paths, SEVENZIP_LEVEL_NORMAL).ret, NotAllocated)

NextErrors == SetError \/ ClearLastError \/ GetLastError \/ ExtractByThread \/ CompressByThread

SpecErrors == InitErrors /\ [][NextErrors]_vars

\* C23: after a public call, sevenzip_get_last_error reports to the calling
\* thread the code the call returned: the error of a call that failed, and
\* SEVENZIP_OK after a call that succeeded, whatever the context held before.
C23_ContextHoldsErrorOfLastCall ==
    arg.op \in {"sevenzip_extract", "sevenzip_compress"} =>
        LastError(ans.thread).code = ans.ret

NoResources == [held |-> {}, freed |-> {}, twice |-> {}]

Acquire(h, r) == [h EXCEPT !.held = @ \cup {r}, !.freed = @ \ {r}]

\* free, fclose, SzArEx_Free: nothing happens for a pointer that is NULL
Release(h, r) ==
    IF r \in h.held THEN [h EXCEPT !.held = @ \ {r}, !.freed = @ \cup {r}]
    ELSE IF r \in h.freed THEN [h EXCEPT !.twice = @ \cup {r}]
    ELSE h

RECURSIVE ReleaseAll(_, _)
ReleaseAll(h, rs) == IF rs = <<>> THEN h ELSE ReleaseAll(Release(h, Head(rs)), Tail(rs))

Exit(ret, h) == [ret |-> ret, held |-> h.held, twice |-> h.twice]

\* SzArEx_Extract is called for an entry of db in the loop of sevenzip_extract
ExtractCalled(db) == \E i \in 1..Len(db) : Len(db[i].name) > 0 /\ ~db[i].is_dir

\* the loop of sevenzip_extract and the cleanup behind it; out_buffer is freed
\* when it is not NULL
extract_loop_res(flt, h) ==
    Exit(extract_entries(flt.db, 1, {}).ret,
         ReleaseAll(IF ExtractCalled(flt.db) THEN Acquire(h, "out_buffer") ELSE h,
                    <<"out_buffer", "look_stream.buf", "db", "archive_stream.file">>))

\* sevenzip_extract from SzArEx_Open on, h holding the file and the buffer
extract_open_res(flt, h) ==
    IF flt.res # "SZ_OK"
    THEN Exit(SEVENZIP_ERROR_INVALID_ARCHIVE, ReleaseAll(h, <<"archive_stream.file", "db">>))
    ELSE IF ~flt.mkdir_ok
    THEN Exit(SEVENZIP_ERROR_OPEN_FILE, ReleaseAll(h, <<"archive_stream.file", "db">>))
    ELSE extract_loop_res(flt, h)

sevenzip_extract_res(flt) ==
    IF ~flt.open_ok THEN Exit(SEVENZIP_ERROR_OPEN_FILE, NoResources)
    ELSE IF ~flt.buf_ok
    THEN Exit(SEVENZIP_ERROR_MEMORY,
              Release(Acquire(NoResources, "archive_stream.file"), "archive_stream.file"))
    ELSE extract_open_res(
             flt, Acquire(Acquire(Acquire(NoResources, "archive_stream.file"),
                                  "look_stream.buf"), "db"))

\* sevenzip_list from SzArEx_Open on; the result goes to the caller at the end
list_open_res(flt, h) ==
    IF flt.res # "SZ_OK"
    THEN Exit(SEVENZIP_ERROR_INVALID_ARCHIVE, ReleaseAll(h, <<"archive_stream.file", "db">>))
    ELSE IF ~flt.result_ok
    THEN Exit(SEVENZIP_ERROR_MEMORY, ReleaseAll(h, <<"archive_stream.file", "db">>))
    ELSE IF ~flt.entries_ok
    THEN Exit(SEVENZIP_ERROR_MEMORY,
              ReleaseAll(Acquire(h, "result"), <<"result", "archive_stream.file", "db">>))
    ELSE Exit(SEVENZIP_OK, ReleaseAll(h, <<"look_stream.buf", "db", "archive_stream.file">>))

sevenzip_list_res(flt) ==
    IF ~flt.open_ok THEN Exit(SEVENZIP_ERROR_OPEN_FILE, NoResources)
    ELSE IF ~flt.buf_ok
    THEN Exit(SEVENZIP_ERROR_MEMORY,
              Release(Acquire(NoResources, "archive_stream.file"), "archive_stream.file"))
    ELSE list_open_res(
             flt, Acquire(Acquire(Acquire(NoResources, "archive_stream.file"),
                                  "look_stream.buf"), "db"))

\* SzArEx_Extract is called for an entry of db in the loops of
\* sevenzip_test_archive and sevenzip_extract_streaming
TestExtractCalled(db) == \E i \in 1..Len(db) : ~db[i].is_dir

\* sevenzip_test_archive from SzArEx_Open on
test_open_res(flt, h) ==
    IF flt.res # "SZ_OK"
    THEN Exit(sevenzip_test_archive(TRUE, [res |-> flt.res, db |-> <<>>]).ret,
              ReleaseAll(h, <<"db", "look_stream.buf", "volumes">>))
    ELSE Exit(sevenzip_test_archive(TRUE, [res |-> "SZ_OK", db |-> flt.db]).ret,
              ReleaseAll(IF TestExtractCalled(flt.db) THEN Acquire(h, "out_buffer") ELSE h,
                         <<"out_buffer", "db", "look_stream.buf", "volumes">>))

\* open_split_volumes closes what it opened before it fails; close_split_volumes
\* closes every volume
sevenzip_test_archive_res(flt) ==
    IF ~flt.open_ok THEN Exit(SEVENZIP_ERROR_OPEN_FILE, NoResources)
    ELSE IF ~flt.buf_ok
    THEN Exit(SEVENZIP_ERROR_MEMORY, Release(Acquire(NoResources, "volumes"), "volumes"))
    ELSE test_open_res(
             flt, Acquire(Acquire(Acquire(NoResources, "volumes"), "look_stream.buf"), "db"))

\* sevenzip_extract_streaming from SzArEx_Open on
extract_streaming_open_res(flt, h) ==
    IF flt.res # "SZ_OK"
    THEN Exit(SEVENZIP_ERROR_EXTRACT, ReleaseAll(h, <<"db", "look_stream.buf", "volumes">>))
    ELSE Exit(sevenzip_extract_streaming(TRUE, [res |-> "SZ_OK", db |-> flt.db]).ret,
              ReleaseAll(IF Len(flt.db) > 0 THEN Acquire(h, "out_buffer") ELSE h,
                         <<"out_buffer", "db", "look_stream.buf", "volumes">>))

sevenzip_extract_streaming_res(flt) ==
    IF ~flt.open_ok THEN Exit(SEVENZIP_ERROR_OPEN_FILE, NoResources)
    ELSE IF ~flt.buf_ok
    THEN Exit(SEVENZIP_ERROR_MEMORY, Release(Acquire(NoResources, "volumes"), "volumes"))
    ELSE extract_streaming_open_res(
             flt, Acquire(Acquire(Acquire(NoResources, "volumes"), "look_stream.buf"), "db"))

\* archives of up to two entries
SmallDbs == {d \in GivenDbs : Len(d) <= 2}

Faults ==
    [op : {"none"}, open_ok : BOOLEAN, buf_ok : BOOLEAN,
     res : {"SZ_OK", "SZ_ERROR_NO_ARCHIVE", "SZ_ERROR_MEM"},
     mkdir_ok : BOOLEAN, result_ok : BOOLEAN, entries_ok : BOOLEAN, db : SmallDbs]

InitResources ==
    /\ inp = NoInput
    /\ pc = "pure"
    /\ ctx = IdleCtx
    /\ files = <<>>
    /\ fidx = 0
    /\ wlog = IdleLog
    /\ res = NoResult
    /\ VolumesIdle
    /\ arg \in Faults
    /\ ans = [op |-> "none"]

ExtractRes ==
    /\ pc = "pure" /\ arg.op = "none"
    /\ Called("sevenzip_extract", sevenzip_extract_res(arg))

ListRes ==
    /\ pc = "pure" /\ arg.op = "none"
    /\ Called("sevenzip_list", sevenzip_list_res(arg))

TestArchiveRes ==
    /\ pc = "pure" /\ arg.op = "none"
    /\ Called("sevenzip_test_archive", sevenzip_test_archive_res(arg))

ExtractStreamingRes ==
    /\ pc = "pure" /\ arg.op = "none"
    /\ Called("sevenzip_extract_streaming", sevenzip_extract_streaming_res(arg))

NextResources == ExtractRes \/ ListRes \/ TestArchiveRes \/ ExtractStreamingRes

SpecResources == InitResources /\ [][NextResources]_vars

\* C25: when sevenzip_extract, sevenzip_list, sevenzip_test_archive or
\* sevenzip_extract_streaming returns, with an error or without, every file
\* handle it opened and every buffer it allocated has been released, and none
\* of them twice.
C25_EveryExitReleasesResources ==
    arg.op # "none" => (ans.out.held = {} /\ ans.out.twice = {})

(***************************************************************************)
(* sevenzip_decrypt_data.  AES-256 in CBC mode is taken for what the mode  *)
(* requires of it: a keyed one-to-one mapping of blocks, chained with the  *)
(* block before.  The block mapping is modelled by adding the key byte.    *)
(***************************************************************************)
AES_BLOCK_SIZE == 16

\* block i of buf, counted from 1
AesBlock(buf, i) == SubSeq(buf, (i - 1) * AES_BLOCK_SIZE + 1, i * AES_BLOCK_SIZE)

RECURSIVE AesCbc_Encode(_, _, _)
AesCbc_Encode(key, prev, data) ==
    IF data = <<>> THEN <<>>
    ELSE LET c == [j \in 1..AES_BLOCK_SIZE |-> (data[j] + prev[j] + key) % 256]
         IN  c \o AesCbc_Encode(key, c, Drop(data, AES_BLOCK_SIZE))

RECURSIVE g_AesCbc_Decode(_, _, _)
g_AesCbc_Decode(key, prev, data) ==
    IF data = <<>> THEN <<>>
    ELSE [j \in 1..AES_BLOCK_SIZE |-> (data[j] + 512 - prev[j] - key) % 256]
            \o g_AesCbc_Decode(key, AesBlock(data, 1), Drop(data, AES_BLOCK_SIZE))

\* the end of sevenzip_decrypt_data: the padding of the decrypted bytes
remove_padding(plaintext, ciphertext_len, padding_byte) ==
    IF padding_byte > 0 /\ padding_byte <= AES_BLOCK_SIZE
    THEN IF \E i \in (ciphertext_len - padding_byte + 1)..ciphertext_len :
                plaintext[i] # padding_byte
         THEN [ret |-> SEVENZIP_ERROR_EXTRACT, plaintext_len |-> ciphertext_len,
               plaintext |-> plaintext]
         ELSE [ret |-> SEVENZIP_OK, plaintext_len |-> ciphertext_len - padding_byte,
               plaintext |-> plaintext]
    ELSE [ret |-> SEVENZIP_OK, plaintext_len |-> ciphertext_len, plaintext |-> plaintext]

decrypt_blocks(plaintext, ciphertext_len) ==
    remove_padding(plaintext, ciphertext_len, plaintext[ciphertext_len])

\* capacity: *plaintext_len at the call; the length is positive
sevenzip_decrypt_data(key, iv, ciphertext, capacity) ==
    IF Len(ciphertext) % AES_BLOCK_SIZE # 0
    THEN [ret |-> SEVENZIP_ERROR_INVALID_PARAM, plaintext_len |-> capacity, plaintext |-> <<>>]
    ELSE IF capacity < Len(ciphertext)
    THEN [ret |-> SEVENZIP_ERROR_MEMORY, plaintext_len |-> Len(ciphertext), plaintext |-> <<>>]
    ELSE decrypt_blocks(g_AesCbc_Decode(key, iv, ciphertext), Len(ciphertext))

\* bytes that decrypt to a buffer of len bytes ending in the byte pad; the pad
\* bytes before the end hold pad as well, but for byte number spoil of them
TailBuffer(len, pad, spoil, fill) ==
    [i \in 1..len |->
        IF i = len THEN pad
        ELSE IF pad \in 1..AES_BLOCK_SIZE /\ i > len - pad
        THEN (IF i - (len - pad) = spoil THEN (pad + 1) % 256 ELSE pad)
        ELSE fill]

AesIv == [j \in 1..AES_BLOCK_SIZE |-> (j * 11) % 256]

DecryptArgs ==
    [op : {"none"}, blocks : {1, 2}, pad : {0, 1, 2, 15, 16, 17, 32, 255},
     spoil : {0, 1}, fill : {0, 16}, key : {3, 250}, slack : {-1, 0, 16}]

InitDecrypt ==
    /\ inp = NoInput
    /\ pc = "pure"
    /\ ctx = IdleCtx
    /\ files = <<>>
    /\ fidx = 0
    /\ wlog = IdleLog
    /\ res = NoResult
    /\ VolumesIdle
    /\ arg \in DecryptArgs
    /\ ans = [op |-> "none"]

\* the ciphertext of the call
Ciphertext ==
    AesCbc_Encode(arg.key, AesIv,
                  TailBuffer(arg.blocks * AES_BLOCK_SIZE, arg.pad, arg.spoil, arg.fill))

DecryptData ==
    /\ pc = "pure" /\ arg.op = "none"
    /\ \E ct \in {Ciphertext} :
          Called("sevenzip_decrypt_data",
                 [ciphertext |-> ct,
                  got |-> sevenzip_decrypt_data(arg.key, AesIv, ct, Len(ct) + arg.slack)])

NextDecrypt == DecryptData

SpecDecrypt == InitDecrypt /\ [][NextDecrypt]_vars

\* the decrypted bytes end in a valid padding of pad bytes
ValidPadding(plain, pad) ==
    /\ pad \in 1..AES_BLOCK_SIZE
    /\ \A i \in (Len(plain) - pad + 1)..Len(plain) : plain[i] = pad

\* C26: for a ciphertext of a positive multiple of 16 bytes and a plaintext
\* buffer that holds them, sevenzip_decrypt_data returns SEVENZIP_ERROR_EXTRACT
\* whenever the last decrypted byte pad is not in 1..16 or one of the last pad
\* decrypted bytes differs from pad; otherwise it returns SEVENZIP_OK and the
\* plaintext length is the ciphertext length less pad.
C26_InvalidPaddingFails ==
    (arg.op = "sevenzip_decrypt_data" /\ arg.slack >= 0) =>
        LET plain == g_AesCbc_Decode(arg.key, AesIv, ans.out.ciphertext)
            pad == plain[Len(plain)]
        IN  IF ValidPadding(plain, pad)
            THEN /\ ans.out.got.ret = SEVENZIP_OK
                 /\ ans.out.got.plaintext_len = Len(plain) - pad
            ELSE ans.out.got.ret = SEVENZIP_ERROR_EXTRACT

(***************************************************************************)
(* The write position of the header serializers.  A file list is given by  *)
(* groups of count entries in a row that share the length of their name,   *)
(* their size and their kind; each operator gives the distance of p from   *)
(* the start of the buffer when the serializer has written its last byte.  *)
(***************************************************************************)
\* the bytes WriteNumber and write_number take for n
WriteNumberLen(n) == Len(WriteNumber(U64(n)))
write_number_len(n) == Len(write_number(U64(n)))

GroupEntries(gs) == SumSeq([i \in 1..Len(gs) |-> gs[i].count])
GroupFiles(gs) == SumSeq([i \in 1..Len(gs) |-> IF gs[i].is_dir THEN 0 ELSE gs[i].count])
GroupUnpack(gs) ==
    SumSeq([i \in 1..Len(gs) |-> IF gs[i].is_dir THEN 0 ELSE gs[i].count * gs[i].size])

\* (strlen(name) + 1) * 2 bytes for every entry
GroupNameBytes(gs) == SumSeq([i \in 1..Len(gs) |-> gs[i].count * (gs[i].name_len + 1) * 2])

\* the group of the last entry that is no directory, 0 when there is none
LastFileGroup(gs) ==
    IF \E i \in 1..Len(gs) : ~gs[i].is_dir /\ gs[i].count > 0
    THEN CHOOSE i \in 1..Len(gs) :
            /\ ~gs[i].is_dir /\ gs[i].count > 0
            /\ \A j \in (i + 1)..Len(gs) : gs[j].is_dir \/ gs[j].count = 0
    ELSE 0

\* the size numbers of SubStreamsInfo: every file but the last
c7_SizeBytes(gs) ==
    SumSeq([i \in 1..Len(gs) |->
               IF gs[i].is_dir THEN 0 ELSE gs[i].count * WriteNumberLen(gs[i].size)])
        - WriteNumberLen(gs[LastFileGroup(gs)].size)

c7_SubStreamsEnd(gs) ==
    2 + WriteNumberLen(GroupFiles(gs))
      + (IF GroupFiles(gs) > 1 THEN 1 + c7_SizeBytes(gs) ELSE 0)
      + 2 + 4 * GroupFiles(gs) + 1

EmptyStreamEnd(gs, number_len) ==
    IF \E i \in 1..Len(gs) : gs[i].is_dir /\ gs[i].count > 0
    THEN 1 + number_len + (GroupEntries(gs) + 7) \div 8
    ELSE 0

\* write_7z_archive of archive_create.c
c7_HeaderEnd(gs, use_copy_codec, pack_size) ==
    2 + (1 + WriteNumberLen(0) + WriteNumberLen(1) + 1 + WriteNumberLen(pack_size) + 1)
      + (2 + 3 * WriteNumberLen(1) + (IF use_copy_codec THEN 2 ELSE 4)
           + 1 + WriteNumberLen(GroupUnpack(gs)) + 1)
      + c7_SubStreamsEnd(gs) + 1
      + (1 + WriteNumberLen(GroupEntries(gs))
           + EmptyStreamEnd(gs, WriteNumberLen((GroupEntries(gs) + 7) \div 8))
           + (1 + WriteNumberLen(GroupNameBytes(gs) + 1) + 1 + GroupNameBytes(gs))
           + (1 + WriteNumberLen(2 + 8 * GroupEntries(gs)) + 2 + 8 * GroupEntries(gs))
           + (1 + WriteNumberLen(2 + 4 * GroupEntries(gs)) + 2 + 4 * GroupEntries(gs))
           + 1)
      + 1

\* build_7z_header of archive_create_multivolume.c; every entry is a file
mv_HeaderEnd(gs, prop_byte, total_packed_size) ==
    3 + (WriteNumberLen(0) + WriteNumberLen(1) + 1 + WriteNumberLen(total_packed_size) + 1)
      + (2 + 3 * WriteNumberLen(1) + (IF prop_byte = 0 THEN 2 ELSE 4)
           + 1 + WriteNumberLen(GroupUnpack(gs)) + 1)
      + c7_SubStreamsEnd(gs) + 1
      + (1 + WriteNumberLen(GroupEntries(gs))
           + (1 + WriteNumberLen(GroupNameBytes(gs) + 1) + 1 + GroupNameBytes(gs))
           + (1 + WriteNumberLen(2 + 8 * GroupEntries(gs)) + 2 + 8 * GroupEntries(gs))
           + (1 + WriteNumberLen(2 + 4 * GroupEntries(gs)) + 2 + 4 * GroupEntries(gs))
           + 2)

\* the entries with a stream of their own: files with bytes
ts_GroupStreams(gs) ==
    SumSeq([i \in 1..Len(gs) |-> IF gs[i].is_dir \/ gs[i].size = 0 THEN 0 ELSE gs[i].count])

\* the size numbers: every file with bytes but the one that is the last entry
ts_SizeBytes(gs) ==
    SumSeq([i \in 1..Len(gs) |->
               IF gs[i].is_dir \/ gs[i].size = 0 THEN 0
               ELSE gs[i].count * write_number_len(gs[i].size)])
        - (IF ~gs[Len(gs)].is_dir /\ gs[Len(gs)].size > 0
           THEN write_number_len(gs[Len(gs)].size) ELSE 0)

\* write_7z_archive of archive_create_true_streaming.c
ts_HeaderEnd(gs, data_size) ==
    2 + (write_number_len(0) + write_number_len(1) + 1 + write_number_len(data_size) + 1)
      + (2 + write_number_len(1) + 2 + 1 + write_number_len(GroupUnpack(gs)) + 1)
      + (IF ts_GroupStreams(gs) > 1
         THEN 2 + write_number_len(ts_GroupStreams(gs)) + 1 + ts_SizeBytes(gs)
                + 2 + 4 * ts_GroupStreams(gs) + 1
         ELSE 0)
      + 1
      + (1 + write_number_len(GroupEntries(gs))
           + (1 + write_number_len(1 + GroupNameBytes(gs)) + 1 + GroupNameBytes(gs))
           + EmptyStreamEnd(gs, write_number_len((GroupEntries(gs) + 7) \div 8))
           + (1 + write_number_len(2 + 8 * GroupEntries(gs)) + 2 + 8 * GroupEntries(gs))
           + 2)

\* one group for every entry of a list of the model
GroupsOf(list) ==
    [i \in 1..Len(list) |->
        [count |-> 1, name_len |-> Len(list[i].name), size |-> list[i].size,
         is_dir |-> list[i].is_dir]]

\* header_capacity of write_7z_archive, capacity of build_7z_header
c7_header_capacity == 65536
mv_capacity == 262144

\* header_capacity of write_7z_archive of archive_create_true_streaming.c
ts_header_capacity(file_count) == 4096 + file_count * 512

\* file lists: one directory or none, then count files with names of name_len
\* characters
HeaderLists ==
    [op : {"none"}, dirs : {0, 1}, count : {1, 3, 9, 40, 163, 1200, 5000},
     name_len : {1, 20, 255, 2300, 4000}, size : {0, 5, 300}, level : Levels]

ListGroups(a) ==
    (IF a.dirs > 0 THEN <<[count |-> a.dirs, name_len |-> 1, size |-> 0, is_dir |-> TRUE]>>
     ELSE <<>>)
        \o <<[count |-> a.count, name_len |-> a.name_len, size |-> a.size, is_dir |-> FALSE]>>

InitHeaderBuf ==
    /\ inp = NoInput
    /\ pc = "pure"
    /\ ctx = IdleCtx
    /\ files = <<>>
    /\ fidx = 0
    /\ wlog = IdleLog
    /\ res = NoResult
    /\ VolumesIdle
    /\ arg \in HeaderLists
    /\ ans = [op |-> "none"]

\* write_7z_archive of archive_create.c builds the header of the list
Create7zHeader ==
    /\ pc = "pure" /\ arg.op = "none"
    /\ \E gs \in {ListGroups(arg)} :
          Called("write_7z_archive",
                 [pos |-> c7_HeaderEnd(gs, arg.level = SEVENZIP_LEVEL_STORE, GroupUnpack(gs)),
                  capacity |-> c7_header_capacity])

\* build_7z_header builds the header of the files of the list
MultivolumeHeader ==
    /\ pc = "pure" /\ arg.op = "none"
    /\ \E gs \in {ListGroups([arg EXCEPT !.dirs = 0])} :
          Called("build_7z_header",
                 [pos |-> mv_HeaderEnd(gs, IF arg.level = SEVENZIP_LEVEL_STORE THEN 0 ELSE 24,
                                       GroupUnpack(gs)),
                  capacity |-> mv_capacity])

\* write_7z_archive of archive_create_true_streaming.c builds the header
TrueStreamingHeader ==
    /\ pc = "pure" /\ arg.op = "none"
    /\ \E gs \in {ListGroups(arg)} :
          Called("ts_write_7z_archive",
                 [pos |-> ts_HeaderEnd(gs, GroupUnpack(gs)),
                  capacity |-> ts_header_capacity(GroupEntries(gs))])

NextHeaderBuf == Create7zHeader \/ MultivolumeHeader \/ TrueStreamingHeader

SpecHeaderBuf == InitHeaderBuf /\ [][NextHeaderBuf]_vars

\* C27: for every file list, the write position of each header serializer
\* stays within the buffer the serializer allocated, up to its last byte.
C27_HeaderStaysInBuffer ==
    arg.op # "none" => ans.out.pos <= ans.out.capacity

(***************************************************************************)
(* VolumeOutStream with its buffer of STREAM_BUFFER_SIZE bytes.  The bytes  *)
(* passed to Write are numbered from 0 in the order they are passed; a run  *)
(* of them is a piece [from, len], and the buffer and the data of a        *)
(* write_across_volumes call are sequences of pieces.                      *)
(***************************************************************************)
MaxWrites == 3

PiecesLen(ps) == SumSeq([i \in 1..Len(ps) |-> ps[i].len])

\* write_across_volumes of len > 0 bytes that succeeds: the data of the call
\* are noted, bytes_written grows by len
write_across_volumes_pieces(c, data) ==
    IF PiecesLen(data) = 0 THEN c
    ELSE [calls |-> Append(c.calls, data), bytes_written |-> c.bytes_written + PiecesLen(data)]

VolumeOutStream_Flush_pieces(s) ==
    IF s.buf_pos > 0
    THEN [s EXCEPT !.ctx = write_across_volumes_pieces(s.ctx, s.buffer),
                   !.packed_size = @ + s.buf_pos,
                   !.buffer = <<>>,
                   !.buf_pos = 0]
    ELSE s

\* a variant of the large write that leaves what the buffer holds where it is
VolumeOutStream_Large_NoFlush(s, src, size) ==
    [s EXCEPT !.ctx = write_across_volumes_pieces(s.ctx, <<[from |-> src, len |-> size]>>),
              !.packed_size = @ + size]

\* the write of size >= STREAM_BUFFER_SIZE: the buffer goes out first
VolumeOutStream_Large(s, src, size) ==
    LET s1 == VolumeOutStream_Flush_pieces(s)
    IN  [s1 EXCEPT !.ctx = write_across_volumes_pieces(s1.ctx, <<[from |-> src, len |-> size]>>),
                   !.packed_size = @ + size]

\* the loop over remaining of the buffered write
RECURSIVE VolumeOutStream_Buffer_pieces(_, _, _)
VolumeOutStream_Buffer_pieces(s, src, remaining) ==
    IF remaining = 0 THEN s
    ELSE LET space == STREAM_BUFFER_SIZE - s.buf_pos
             copy == IF remaining < space THEN remaining ELSE space
             s1 == [s EXCEPT !.buffer = Append(@, [from |-> src, len |-> copy]),
                             !.buf_pos = @ + copy]
             s2 == IF s1.buf_pos >= STREAM_BUFFER_SIZE
                   THEN VolumeOutStream_Flush_pieces(s1) ELSE s1
         IN  VolumeOutStream_Buffer_pieces(s2, src + copy, remaining - copy)

VolumeOutStream_Write_pieces(s, src, size) ==
    IF size >= STREAM_BUFFER_SIZE
    THEN VolumeOutStream_Large(s, src, size)
    ELSE VolumeOutStream_Buffer_pieces(s, src, size)

\* the sizes of a Write call
WriteSizes == {0, 1, STREAM_BUFFER_SIZE \div 2, STREAM_BUFFER_SIZE - 1, STREAM_BUFFER_SIZE,
               STREAM_BUFFER_SIZE + 1, STREAM_BUFFER_SIZE + STREAM_BUFFER_SIZE \div 2}

\* the stream as the compress functions set it up
NewOutStream ==
    [ctx |-> [calls |-> <<>>, bytes_written |-> 0], packed_size |-> 0,
     buffer |-> <<>>, buf_pos |-> 0]

InitOutStream ==
    /\ inp = NoInput
    /\ pc = "pure"
    /\ ctx = IdleCtx
    /\ files = <<>>
    /\ fidx = 0
    /\ wlog = IdleLog
    /\ res = NoResult
    /\ VolumesIdle
    /\ arg = [op |-> "none", s |-> NewOutStream, accepted |-> 0, n |-> 0]
    /\ ans = [op |-> "none"]

\* the encoder passes size more bytes to Write
OutStreamWrite ==
    /\ pc = "pure" /\ arg.op # "VolumeOutStream_Flush" /\ arg.n < MaxWrites
    /\ \E size \in WriteSizes :
          /\ arg' = [op |-> "VolumeOutStream_Write",
                     s |-> VolumeOutStream_Write_pieces(arg.s, arg.accepted, size),
                     accepted |-> arg.accepted + size, n |-> arg.n + 1]
          /\ ans' = [op |-> "VolumeOutStream_Write", size |-> size, ret |-> size]
    /\ UNCHANGED <<createVars, volumeVars>>

\* the flush after Lzma2Enc_Encode2 has returned SZ_OK
OutStreamFlush ==
    /\ pc = "pure" /\ arg.op # "VolumeOutStream_Flush"
    /\ arg' = [arg EXCEPT !.op = "VolumeOutStream_Flush",
                          !.s = VolumeOutStream_Flush_pieces(arg.s)]
    /\ ans' = [op |-> "VolumeOutStream_Flush", ret |-> 1]
    /\ UNCHANGED <<createVars, volumeVars>>

NextOutStream == OutStreamWrite \/ OutStreamFlush

SpecOutStream == InitOutStream /\ [][NextOutStream]_vars

\* the pieces in order are the bytes from start on, none left out or repeated
RECURSIVE InOrderFrom(_, _)
InOrderFrom(ps, start) ==
    IF ps = <<>> THEN TRUE
    ELSE Head(ps).from = start /\ InOrderFrom(Tail(ps), start + Head(ps).len)

\* C28: the bytes reach write_across_volumes in the order they were passed to
\* Write; the bytes accepted so far are *packed_size plus the bytes held in
\* the buffer, which follow those written; after the flush *packed_size is
\* the number of bytes written.
C28_OutStreamKeepsOrderAndCount ==
    /\ InOrderFrom(Concat(arg.s.ctx.calls) \o arg.s.buffer, 0)
    /\ PiecesLen(Concat(arg.s.ctx.calls)) = arg.s.packed_size
    /\ PiecesLen(arg.s.buffer) = arg.s.buf_pos
    /\ arg.accepted = arg.s.packed_size + arg.s.buf_pos
    /\ arg.s.ctx.bytes_written = arg.s.packed_size
    /\ arg.op = "VolumeOutStream_Flush" =>
          (arg.s.packed_size = arg.accepted /\ arg.s.buf_pos = 0)

\* a write of one byte is held in the buffer and goes out ahead of the large
\* write that follows it; a third write is held until the flush
C28_Witness ==
    /\ arg.op = "VolumeOutStream_Flush"
    /\ arg.n = 3
    /\ arg.accepted = 1 + (STREAM_BUFFER_SIZE + 1) + (STREAM_BUFFER_SIZE - 1)
    /\ Len(arg.s.ctx.calls) = 3
    /\ arg.s.ctx.calls[1] = <<[from |-> 0, len |-> 1]>>
    /\ arg.s.packed_size = arg.accepted

\* C29: after any sequence of Seek and Read calls on an open stream of either
\* implementation the position is at least 0 and at most total_size, also
\* after a Seek that asked for a position before 0 or beyond total_size.
C29_PositionStaysInStream ==
    (pc = "open" /\ stream.ok) =>
        /\ 0 <= stream.current_pos
        /\ stream.current_pos <= stream.total_size

\* a Seek of archive_extract_split.c on a stream of two or more volumes that
\* asked for a position before 0 and left the position at total_size
C29_Witness ==
    /\ pc = "open" /\ stream.ok /\ stream.impl = "extract"
    /\ Len(stream.volumes) >= 2
    /\ rd.op = "seek" /\ rd.target < 0
    /\ stream.current_pos = stream.total_size

(***************************************************************************)
(* The progress callbacks of write_across_volumes                          *)
(***************************************************************************)
\* the callbacks of one write_across_volumes call, in the order they are made:
\* one after every round of the loop, when total_size > 0
RECURSIVE write_across_volumes_progress(_, _)
write_across_volumes_progress(c, data) ==
    IF Len(data) = 0 THEN <<>>
    ELSE
    LET c1 == IF Len(c.volumes) = 0 \/ c.current_volume_size >= c.max_volume_size
              THEN open_new_volume(c) ELSE c
        space_in_volume == c1.max_volume_size - c1.current_volume_size
        to_write == Min(Len(data), space_in_volume)
        c2 == [c1 EXCEPT !.volumes[Len(c1.volumes)] = @ \o Take(data, to_write),
                         !.current_volume_size = @ + to_write,
                         !.bytes_written = @ + to_write]
    IN  (IF c2.total_size > 0
         THEN <<[bytes_done |-> c2.bytes_written, bytes_total |-> c2.total_size,
                 file_bytes_done |-> to_write, file_bytes_total |-> 0]>>
         ELSE <<>>)
            \o write_across_volumes_progress(c2, Drop(data, to_write))

\* the callbacks of the write_across_volumes calls with calls[i .. ] from c on
RECURSIVE ProgressOfCalls(_, _, _)
ProgressOfCalls(c, calls, i) ==
    IF i > Len(calls) THEN <<>>
    ELSE write_across_volumes_progress(c, calls[i])
            \o ProgressOfCalls(write_across_volumes(c, calls[i]), calls, i + 1)

\* the context of sevenzip_create_multivolume_7z_complete ahead of the loop
\* over the files
mv_ContextAtPackStart ==
    [ctx EXCEPT !.volumes = <<wlog.first>>, !.current_volume_size = Len(wlog.first),
                !.bytes_written = 0, !.total_packed_size = 0]

\* the callbacks made so far by the running or finished call
mv_ProgressCalls == ProgressOfCalls(mv_ContextAtPackStart, wlog.calls, 1)

\* C30: in every progress callback made during
\* sevenzip_create_multivolume_7z_complete, bytes_total is above 0 and
\* bytes_done is at most bytes_total, up to the last callback of the run.
C30_BytesDoneWithinTotal ==
    (pc \in {"mv_files", "done"} /\ res.api = "multivolume") =>
        \A i \in 1..Len(mv_ProgressCalls) :
            /\ mv_ProgressCalls[i].bytes_total > 0
            /\ mv_ProgressCalls[i].bytes_done <= mv_ProgressCalls[i].bytes_total

=============================================================================
